---------------------------- MODULE Spec2Model ----------------------------
(***************************************************************************)
(* Transcript consolidation pipeline of the radio transcription tool.      *)
(*                                                                         *)
(* Texts are sequences of one-character strings, so that lower(), strip(), *)
(* split(), `in` and join() are modelled on characters as Python computes  *)
(* them.  Similarities are exact fractions <<num, den>> in lowest terms    *)
(* (0.9 is <<9, 10>>); for word sets of up to 14 words the float           *)
(* comparisons against the thresholds 0.4, 0.5, 0.7 and 0.8 used by the    *)
(* code agree with the exact ones.  Segment times are whole seconds; the   *)
(* estimated timestamps of the application are exact fractions.  Scores of *)
(* KeyBERT are whole hundredths.                                           *)
(***************************************************************************)
EXTENDS Integers, Sequences, FiniteSets, TLC

VARIABLES
    pc,                 \* position of the run being modelled
    text1, text2,       \* arguments of calculate_text_similarity
    sim12, sim21,       \* its results for (text1, text2) and (text2, text1)
    simU12, simU21,     \* results of utils.calculate_similarity
    phrases_with_times, \* argument of deduplicate_phrases
    deduplicated,       \* its result
    deduplicated_again, \* its result on its own output
    all_segments,       \* the segments handed to merge_similar_segments
    similarity_threshold,
    similar_groups,     \* the lists similar_segments the merger formed
    merged_segments,    \* its result
    phrases,            \* the phrases handed to merge_overlapping_phrases
    merged_phrases,     \* its result
    remaining_phrases,  \* remove_true_subphrases of that result
    transcript,         \* the transcript of the recording
    keybert_available,  \* the module's flag
    keywords_phrases,   \* what KeyBERT gave for 2 to 8 words,
    keywords_medium,    \* for 2 to 4 words
    keywords_words,     \* and for single words
    keypoints,          \* the keypoints of the recording
    entered,            \* the stages the run entered, in order
    run_number,         \* the number of the run in its process
    first_run,          \* the recording and the result of the first run
    kw_model,           \* what KeyBERT extracted so far, per recording
    keypoint_times,     \* keypoint -> starts of the segments that mention it
    app_text,           \* the transcript the application extracts from
    audio_duration,     \* its length in seconds
    app_keybert_available, \* the flag of the transcription module
    app_keypoint_times, \* what extract_keypoints_with_timestamps returns
    results,            \* what process_keypoints returns
    extracted,          \* what extract_keypoints returns
    given,              \* a list of items of which one is malformed,
    bad_at,             \* the place of that item,
    outcome,            \* what the stage does with the list
    outcome_without,    \* and with the list without the item
    checked_text,       \* a text handed to is_whisper_artifact
    is_artifact,        \* what the function of phrase_filtering returns for it
    utils_is_artifact,  \* and what the function of utils returns
    filter_input,       \* the scored candidates handed to a stopword filter,
    filter_stopwords,   \* the stopword set handed with them
    filter_output,      \* and what the filter returns
    is_recording,       \* the flag of the application
    stop_event,         \* is the event of the recorder threads set
    recording_thread,   \* the recorder thread the application holds, 0 for None
    recorders,          \* the recorder threads and their ffmpeg processes
    main_thread,        \* where the main thread of the GUI is
    transcriptions,     \* the transcription runs that were started
    Popen,              \* subprocess.Popen: 0 the original, k the wrapper of run k
    last_click,         \* the kind of the click the main thread handled last
    click_parity,       \* the number of clicks it handled, modulo 2
    ignored_clicks,     \* the kinds of clicks that returned at once
    is_listening,       \* the flag of live listening
    listen_process,     \* the listener whose ffplay the application holds, 0 for None
    listeners,          \* the listener threads and their ffplay processes
    pending_resets,     \* the deferred resets of is_listening that wait in the main loop
    num_chunks,         \* the number of chunks of the audio
    chunk_i,            \* the chunk of the loop, from 0
    chunk_pc,           \* the place of the transcription in the chunk loop
    retry,              \* the attempt of the retry loop, from 0
    response,           \* the response of the speech-to-text call
    chunk_segments,     \* all_segments of the chunk loop: the chunks whose segments it holds
    chunk_log           \* for each chunk the attempts made and how it went

vars == <<pc, text1, text2, sim12, sim21, simU12, simU21,
          phrases_with_times, deduplicated, deduplicated_again,
          all_segments, similarity_threshold, similar_groups, merged_segments,
          phrases, merged_phrases, remaining_phrases,
          transcript, keybert_available, keywords_phrases, keywords_medium,
          keywords_words, keypoints, entered, run_number, first_run, kw_model,
          keypoint_times,
          app_text, audio_duration, app_keybert_available, app_keypoint_times,
          results, extracted, given, bad_at, outcome, outcome_without,
          checked_text, is_artifact, utils_is_artifact,
          filter_input, filter_stopwords, filter_output,
          is_recording, stop_event, recording_thread, recorders, main_thread, transcriptions, Popen, last_click, click_parity, ignored_clicks,
          is_listening, listen_process, listeners, pending_resets,
          num_chunks, chunk_i, chunk_pc, retry, response, chunk_segments, chunk_log>>

-----------------------------------------------------------------------------
(* Python string primitives on character sequences *)

Range(f) == {f[i] : i \in DOMAIN f}

\* the sequence f with its elements computed once
Tuple(f) == f \o <<>>

\* TLC computes an argument where it is first used; this has value computed
\* where a loop is entered
Computed(value) == value = value

LowerLetters == <<"a","b","c","d","e","f","g","h","i","j","k","l","m",
                  "n","o","p","q","r","s","t","u","v","w","x","y","z">>
UpperLetters == <<"A","B","C","D","E","F","G","H","I","J","K","L","M",
                  "N","O","P","Q","R","S","T","U","V","W","X","Y","Z">>

UpperSet == Range(UpperLetters)

\* the letter of lower at the place c has in upper, any other character itself
MappedChar(c, upper, lower) ==
    IF \E i \in DOMAIN upper : upper[i] = c
    THEN lower[CHOOSE i \in DOMAIN upper : upper[i] = c]
    ELSE c

LowerChar(c) == MappedChar(c, UpperLetters, LowerLetters)

\* str.lower()
Lower(s) == Tuple([i \in DOMAIN s |-> LowerChar(s[i])])

IsSpace(c) == c \in {" ", "\t", "\n"}

SetMin(S) == CHOOSE x \in S : \A y \in S : x <= y
SetMax(S) == CHOOSE x \in S : \A y \in S : x >= y

\* str.strip()
\* s from the first to the last of the positions idx
Between(s, idx) == IF idx = {} THEN <<>> ELSE SubSeq(s, SetMin(idx), SetMax(idx))

Strip(s) == Between(s, {i \in DOMAIN s : ~IsSpace(s[i])})

\* the k-th smallest element of a set of numbers
Nth(S, k) == CHOOSE x \in S : Cardinality({y \in S : y <= x}) = k

\* a set of positions in increasing order
SortedSeq(S) == Tuple([k \in 1..Cardinality(S) |-> Nth(S, k)])

\* the elements of seq at the positions in keep, in order
KeepAt(seq, keep) ==
    LET place == Tuple([i \in DOMAIN seq |-> Cardinality({j \in keep : j <= i})])
    IN  Tuple([k \in 1..Cardinality(keep) |->
                 seq[CHOOSE i \in keep : place[i] = k]])

\* the items by their keys, largest key first, items of equal keys in order
SortedDescending(items, keys) ==
    LET place == Tuple([i \in DOMAIN items |->
                          Cardinality({j \in DOMAIN items :
                                          \/ keys[j] > keys[i]
                                          \/ keys[j] = keys[i] /\ j <= i})])
    IN  Tuple([r \in DOMAIN items |->
                 items[CHOOSE i \in DOMAIN items : place[i] = r]])

\* where the run of positions of inside that starts at i ends
RunEnd(inside, i, last) == SetMin({j \in i..last : (j + 1) \notin inside})

\* the pieces of s at the runs that start at the positions starts
RunsFrom(s, inside, starts) ==
    Tuple([k \in DOMAIN starts |->
             SubSeq(s, starts[k], RunEnd(inside, starts[k], Len(s)))])

\* the pieces of s over the maximal runs of the positions inside, in order
RunsOf(s, inside) ==
    RunsFrom(s, inside, KeepAt([i \in 1..Len(s) |-> i],
                               {i \in inside : (i - 1) \notin inside}))

\* str.split(): the words between runs of whitespace
Split(s) == RunsOf(s, {i \in DOMAIN s : ~IsSpace(s[i])})

\* needle in hay (substring test on characters)
In(needle, hay) ==
    \/ needle = <<>>
    \/ \E i \in 1..(Len(hay) - Len(needle) + 1) :
          /\ hay[i] = needle[1]
          /\ SubSeq(hay, i, i + Len(needle) - 1) = needle

RECURSIVE JoinRange(_, _, _, _)
JoinRange(words, sep, a, b) ==
    IF a = b THEN words[a]
    ELSE JoinRange(words, sep, a, (a + b) \div 2) \o sep
            \o JoinRange(words, sep, (a + b) \div 2 + 1, b)

\* sep.join(words)
Join(words, sep) ==
    IF words = <<>> THEN <<>> ELSE JoinRange(words, sep, 1, Len(words))

SP == <<" ">>

\* the value of what has not been computed, and Python's None
None == "None"

\* the characters of a string literal
Chars(str) == Tuple([i \in 1..Len(str) |-> SubSeq(str, i, i)])

\* the positions from i on where needle occurs in hay
OccursFrom(needle, hay, i) ==
    {j \in i..(Len(hay) - Len(needle) + 1) :
        hay[j] = needle[1] /\ SubSeq(hay, j, j + Len(needle) - 1) = needle}

RECURSIVE CountFrom(_, _, _)
\* the occurrences counted from the first of the positions at
CountAt(needle, hay, at) ==
    IF at = {} THEN 0 ELSE 1 + CountFrom(needle, hay, SetMin(at) + Len(needle))

CountFrom(needle, hay, i) == CountAt(needle, hay, OccursFrom(needle, hay, i))

\* hay.count(needle): occurrences that do not overlap, for a non-empty needle
Count(needle, hay) == CountFrom(needle, hay, 1)


-----------------------------------------------------------------------------
(* Exact fractions *)

RECURSIVE GCD(_, _)
GCD(a, b) == IF b = 0 THEN a ELSE GCD(b, a % b)

Frac(n, d) == LET g == GCD(n, d) IN <<n \div g, d \div g>>

FracLeq(x, y) == x[1] * y[2] <= y[1] * x[2]
FracLt(x, y) == x[1] * y[2] < y[1] * x[2]

FZero == <<0, 1>>
FOne == <<1, 1>>
F09 == <<9, 10>>

-----------------------------------------------------------------------------
(* Text similarity *)

\* length of the common run of words starting at words1[i], words2[j]
RECURSIVE CommonLength(_, _, _, _, _)
CommonLength(words1, words2, i, j, n) ==
    IF i + n <= Len(words1) /\ j + n <= Len(words2) /\ words1[i + n] = words2[j + n]
    THEN CommonLength(words1, words2, i, j, n + 1)
    ELSE n

MaxCommonLength(words1, words2) ==
    SetMax({0} \cup {CommonLength(words1, words2, i, j, 0) :
                        i \in DOMAIN words1, j \in DOMAIN words2})

\* text1_lower in text2_lower or text2_lower in text1_lower, one way only
IsSubstringMatch_OneWay(a, b) == In(a, b)

\* text1_lower in text2_lower or text2_lower in text1_lower
IsSubstringMatch(a, b) == In(a, b) \/ In(b, a)

\* the bonus given from a common run of two words on
HasLongRun_FromTwo(words1, words2) == MaxCommonLength(words1, words2) >= 2

\* max_common_length >= 3
HasLongRun(words1, words2) == MaxCommonLength(words1, words2) >= 3

calculate_text_similarity(t1, t2) ==
    IF t1 = <<>> \/ t2 = <<>> THEN FZero
    ELSE
      LET text1_lower == Strip(Lower(t1))
          text2_lower == Strip(Lower(t2))
      IN  IF IsSubstringMatch(text1_lower, text2_lower)
          THEN F09
          ELSE
            LET words1 == Range(Split(text1_lower))
                words2 == Range(Split(text2_lower))
                intersection == Cardinality(words1 \cap words2)
                union == Cardinality(words1 \cup words2)
            IN  IF words1 = {} \/ words2 = {} \/ union = 0 THEN FZero
                ELSE
                  LET bonus == IF HasLongRun(Split(text1_lower), Split(text2_lower))
                               THEN 2 * union ELSE 0
                      base == Frac(10 * intersection + bonus, 10 * union)
                  IN  IF FracLt(FOne, base) THEN FOne ELSE base

\* utils.calculate_similarity: the plain Jaccard copy
calculate_similarity(t1, t2) ==
    IF t1 = <<>> \/ t2 = <<>> THEN FZero
    ELSE
      LET words1 == Range(Split(Lower(t1)))
          words2 == Range(Split(Lower(t2)))
          intersection == Cardinality(words1 \cap words2)
          union == Cardinality(words1 \cup words2)
      IN  IF words1 = {} \/ words2 = {} THEN FZero
          ELSE IF union > 0 THEN Frac(intersection, union) ELSE FZero

-----------------------------------------------------------------------------
(* Deduplication of keypoints.  A keypoint is [phrase, times]; phrase_dict   *)
(* is the insertion-ordered dict, a sequence of [norm, phrase, times].       *)

\* " ".join(phrase.lower().split())
NormalizePhrase(phrase) == Join(Split(Lower(phrase)), SP)

\* the new timestamps put in front of the existing ones
MergeTimes_NewFirst(existing_times, timestamps) == timestamps \o existing_times

\* merged_times = existing_times + timestamps
MergeTimes(existing_times, timestamps) == existing_times \o timestamps

RemoveAt(seq, i) == SubSeq(seq, 1, i - 1) \o SubSeq(seq, i + 1, Len(seq))

\* one iteration of the loop over phrases_with_times
DedupStep(phrase_dict, item) ==
    LET phrase == item.phrase
        timestamps == item.times
        normalized_phrase == NormalizePhrase(phrase)
        exact == {i \in DOMAIN phrase_dict : phrase_dict[i].norm = normalized_phrase}
        similar == {i \in DOMAIN phrase_dict :
                      \/ In(normalized_phrase, phrase_dict[i].norm)
                      \/ In(phrase_dict[i].norm, normalized_phrase)}
    IN  IF exact # {}
        THEN LET i == SetMin(exact)
                 existing_phrase == phrase_dict[i].phrase
                 merged_times == MergeTimes(phrase_dict[i].times, timestamps)
             IN  [phrase_dict EXCEPT ![i] =
                    [norm |-> normalized_phrase,
                     phrase |-> IF Len(phrase) > Len(existing_phrase)
                                THEN phrase ELSE existing_phrase,
                     times |-> merged_times]]
        ELSE IF similar # {}
        THEN LET i == SetMin(similar)     \* the first match; the loop breaks
                 existing_phrase == phrase_dict[i].phrase
                 merged_times == MergeTimes(phrase_dict[i].times, timestamps)
             IN  IF Len(phrase) > Len(existing_phrase)
                 THEN Append(RemoveAt(phrase_dict, i),
                             [norm |-> normalized_phrase, phrase |-> phrase,
                              times |-> merged_times])
                 ELSE [phrase_dict EXCEPT ![i].times = merged_times]
        ELSE Append(phrase_dict,
                    [norm |-> normalized_phrase, phrase |-> phrase,
                     times |-> timestamps])

RECURSIVE DedupLoop(_, _, _, _)
\* the iterations first..last of the loop over the items, the later half of
\* them after the earlier half
DedupLoop(items, first, last, phrase_dict) ==
    IF Computed(phrase_dict) /\ first > last THEN phrase_dict
    ELSE IF first = last THEN DedupStep(phrase_dict, items[first])
    ELSE DedupLoop(items, (first + last) \div 2 + 1, last,
                   DedupLoop(items, first, (first + last) \div 2, phrase_dict))

\* list.sort(key=lambda x: len(x[0]), reverse=True): stable, longest first
SortedByLength(values) ==
    SortedDescending(values, Tuple([i \in DOMAIN values |-> Len(values[i].phrase)]))

deduplicate_phrases(items) ==
    IF items = <<>> THEN items
    ELSE LET phrase_dict == DedupLoop(items, 1, Len(items), <<>>)
             values == Tuple([i \in DOMAIN phrase_dict |->
                                [phrase |-> phrase_dict[i].phrase,
                                 times |-> phrase_dict[i].times]])
         IN  SortedByLength(values)

-----------------------------------------------------------------------------
(* Artifact filter and segment merger.  A segment is [start, end, text].     *)

whisper_prompt_indicators ==
    <<Chars("deze transcriptie moet alle belangrijke woorden en zinnen bevatten"),
      Chars("maar muziekteksten en jingles kunnen worden overgeslagen"),
      Chars("transcriptie moet alle belangrijke woorden en zinnen bevatten"),
      Chars("muziekteksten en jingles kunnen worden overgeslagen"),
      Chars("transcriptie"),
      Chars("whisper"),
      Chars("openai"),
      Chars("api"),
      Chars("prompt"),
      Chars("instruction"),
      Chars("alle belangrijke woorden"),
      Chars("zinnen bevatten"),
      Chars("muziekteksten en jingles"),
      Chars("kunnen worden overgeslagen"),
      Chars("radio-uitzending"),
      Chars("nieuws discussies interviews"),
      Chars("focus op spraak"),
      Chars("niet op muziek"),
      Chars("belangrijke woorden en zinnen"),
      Chars("muziekteksten en jingles kunnen worden overgeslagen")>>

suspicious_patterns ==
    <<Chars("deze transcriptie"),
      Chars("transcriptie moet"),
      Chars("muziekteksten en jingles"),
      Chars("belangrijke woorden"),
      Chars("zinnen bevatten"),
      Chars("overgeslagen"),
      Chars("focus op spraak"),
      Chars("niet op muziek"),
      Chars("nederlandse radio-uitzending"),
      Chars("nieuws discussies interviews"),
      Chars("radio-uitzending met nieuws"),
      Chars("discussies interviews en gesprekken"),
      Chars("focus op spraak en gesprekken"),
      Chars("transcriptie moet alle belangrijke"),
      Chars("woorden en zinnen bevatten"),
      Chars("maar muziekteksten en jingles"),
      Chars("kunnen worden overgeslagen")>>

\* text_lower.replace(" ", "")
WithoutSpaces(t) == KeepAt(t, {i \in DOMAIN t : t[i] # " "})

\* no check for a repeated phrase
RepeatedPhrase_Never(text_lower) == FALSE

\* the same three-word phrase, longer than 10 characters, twice in the text
RepeatedPhrase(text_lower) ==
    LET words == Split(text_lower)
    IN  /\ Len(words) > 3
        /\ Len(WithoutSpaces(text_lower)) > 20
        /\ \E i \in 1..(Len(words) - 2) :
              LET phrase == Join(SubSeq(words, i, i + 2), SP)
              IN  Len(phrase) > 10 /\ Count(phrase, text_lower) > 1

\* a word of more than 3 characters more than 3 times
RepeatedWord(text_lower) ==
    LET words == Split(text_lower)
    IN  \E i \in DOMAIN words :
            /\ Len(words[i]) > 3
            /\ Cardinality({j \in DOMAIN words : words[j] = words[i]}) > 3

\* a run of 20 characters more than twice in a text of more than 100 characters
RepeatedSequence(text) ==
    /\ Len(text) > 100
    /\ \E i \in 1..(Len(text) - 20) : Count(SubSeq(text, i, i + 19), text) > 2

is_whisper_artifact(text) ==
    IF text = <<>> THEN FALSE
    ELSE LET text_lower == Strip(Lower(text))
         IN  \/ \E k \in DOMAIN whisper_prompt_indicators :
                    In(whisper_prompt_indicators[k], text_lower)
             \/ \E k \in DOMAIN suspicious_patterns :
                    In(suspicious_patterns[k], text_lower)
             \/ RepeatedPhrase(text_lower)
             \/ RepeatedWord(text_lower)
             \/ RepeatedSequence(text)

\* the lists of utils.is_whisper_artifact
utils_whisper_prompt_indicators ==
    <<Chars("transcriptie"),
      Chars("nederlandse radio-uitzending"),
      Chars("nieuws discussies interviews"),
      Chars("focus op spraak"),
      Chars("niet op muziek"),
      Chars("belangrijke woorden"),
      Chars("zinnen bevatten"),
      Chars("muziekteksten en jingles"),
      Chars("kunnen worden overgeslagen"),
      Chars("radio-uitzending"),
      Chars("nieuws discussies interviews"),
      Chars("focus op spraak"),
      Chars("niet op muziek"),
      Chars("belangrijke woorden en zinnen"),
      Chars("muziekteksten en jingles kunnen worden overgeslagen")>>

utils_suspicious_patterns ==
    <<Chars("deze transcriptie"),
      Chars("transcriptie moet"),
      Chars("muziekteksten en jingles"),
      Chars("belangrijke woorden"),
      Chars("zinnen bevatten"),
      Chars("overgeslagen"),
      Chars("focus op spraak"),
      Chars("niet op muziek"),
      Chars("nederlandse radio-uitzending"),
      Chars("nieuws discussies interviews"),
      Chars("radio-uitzending met nieuws"),
      Chars("discussies interviews en gesprekken"),
      Chars("focus op spraak en gesprekken")>>

\* utils.is_whisper_artifact: the two lists, for a text of 10 characters and more
utils_is_whisper_artifact(text) ==
    IF text = <<>> \/ Len(Strip(text)) < 10 THEN FALSE
    ELSE \/ \E k \in DOMAIN utils_whisper_prompt_indicators :
               In(utils_whisper_prompt_indicators[k], Strip(Lower(text)))
         \/ \E k \in DOMAIN utils_suspicious_patterns :
               In(utils_suspicious_patterns[k], Strip(Lower(text)))

\* similarity > 0.8
VerySimilar == <<4, 5>>

\* the same with similarity >= 0.8
is_substring_or_similar_AtLeast(t1, t2) ==
    IF t1 = <<>> \/ t2 = <<>> THEN FALSE
    ELSE \/ In(Strip(Lower(t1)), Strip(Lower(t2)))
         \/ In(Strip(Lower(t2)), Strip(Lower(t1)))
         \/ FracLeq(VerySimilar,
                    calculate_text_similarity(Strip(Lower(t1)), Strip(Lower(t2))))

is_substring_or_similar(t1, t2) ==
    IF t1 = <<>> \/ t2 = <<>> THEN FALSE
    ELSE LET text1_lower == Strip(Lower(t1))
             text2_lower == Strip(Lower(t2))
         IN  \/ In(text1_lower, text2_lower)
             \/ In(text2_lower, text1_lower)
             \/ FracLt(VerySimilar, calculate_text_similarity(text1_lower, text2_lower))

RECURSIVE ReplaceDoubleSpaces(_, _)
\* final_text.replace("  ", " "): one pass from the left
ReplaceDoubleSpaces(t, i) ==
    LET at == {j \in i..(Len(t) - 1) : t[j] = " " /\ t[j + 1] = " "}
    IN  IF at = {} THEN SubSeq(t, i, Len(t))
        ELSE SubSeq(t, i, SetMin(at) - 1) \o SP
                \o ReplaceDoubleSpaces(t, SetMin(at) + 2)

\* the base taken as the first text of the group
BaseText_First(unique_texts) == unique_texts[1]

\* max(unique_texts, key=len): the first of the longest texts
BaseText(unique_texts) ==
    unique_texts[SetMin({i \in DOMAIN unique_texts :
                            \A j \in DOMAIN unique_texts :
                                Len(unique_texts[j]) <= Len(unique_texts[i])})]

merge_text_segments(texts) ==
    IF texts = <<>> THEN <<>>
    ELSE IF Len(texts) = 1 THEN texts[1]
    ELSE
      LET stripped == Tuple([i \in DOMAIN texts |-> Strip(texts[i])])
          unique_texts == KeepAt(stripped, {i \in DOMAIN stripped : stripped[i] # <<>>})
      IN  IF unique_texts = <<>> THEN <<>>
          ELSE IF Len(unique_texts) = 1 THEN unique_texts[1]
          ELSE
            LET base_text == BaseText(unique_texts)
                merged_parts ==
                    <<base_text>> \o
                    KeepAt(unique_texts,
                           {i \in DOMAIN unique_texts :
                               /\ unique_texts[i] # base_text
                               /\ ~is_substring_or_similar(unique_texts[i], base_text)})
            IN  IF Len(merged_parts) = 1 THEN merged_parts[1]
                ELSE Strip(ReplaceDoubleSpaces(Join(merged_parts, SP), 1))

\* the segments that go into the comparison
ValidSegments(segments) ==
    KeepAt(segments, {i \in DOMAIN segments :
                         /\ Strip(segments[i].text) # <<>>
                         /\ ~is_whisper_artifact(segments[i].text)})

\* the positions in valid_segments of the group that seg1 = valid_segments[i] opens
SimilarTo(valid_segments, i, processed_indices, threshold) ==
    {i} \cup {j \in (i + 1)..Len(valid_segments) :
                /\ j \notin processed_indices
                /\ FracLeq(threshold,
                           calculate_text_similarity(valid_segments[i].text,
                                                     valid_segments[j].text))}

RECURSIVE SimilarGroups(_, _, _, _)
\* the lists similar_segments, in the order the outer loop forms them
SimilarGroups(valid_segments, i, processed_indices, threshold) ==
    IF i > Len(valid_segments) THEN <<>>
    ELSE IF i \in processed_indices
         THEN SimilarGroups(valid_segments, i + 1, processed_indices, threshold)
         ELSE LET g == SimilarTo(valid_segments, i, processed_indices, threshold)
                  similar_segments == KeepAt(valid_segments, g)
              IN  <<similar_segments>> \o
                  SimilarGroups(valid_segments, i + 1, processed_indices \cup g,
                                threshold)

RECURSIVE SimilarPositions(_, _, _, _)
\* the positions in valid_segments of the members of those lists
SimilarPositions(valid_segments, i, processed_indices, threshold) ==
    IF i > Len(valid_segments) THEN <<>>
    ELSE IF i \in processed_indices
         THEN SimilarPositions(valid_segments, i + 1, processed_indices, threshold)
         ELSE <<SimilarTo(valid_segments, i, processed_indices, threshold)>> \o
              SimilarPositions(valid_segments, i + 1,
                               processed_indices
                                  \cup SimilarTo(valid_segments, i, processed_indices,
                                                 threshold),
                               threshold)

EarliestStart(similar_segments) ==
    SetMin({similar_segments[k].start : k \in DOMAIN similar_segments})

LatestEnd(similar_segments) ==
    SetMax({similar_segments[k].end : k \in DOMAIN similar_segments})

\* what the outer loop appends for one group
MergedSegment(similar_segments) ==
    IF Len(similar_segments) > 1
    THEN [start |-> EarliestStart(similar_segments),
          end |-> LatestEnd(similar_segments),
          text |-> merge_text_segments([k \in DOMAIN similar_segments |->
                                           similar_segments[k].text])]
    ELSE similar_segments[1]

\* the groups formed for a list of segments; none for a list of at most one
MergeGroups(segments, threshold) ==
    IF Len(segments) <= 1 THEN <<>>
    ELSE SimilarGroups(ValidSegments(segments), 1, {}, threshold)

\* merge_similar_segments with target_timestamp=None, as its caller uses it
merge_similar_segments(segments, threshold) ==
    IF Len(segments) <= 1 THEN segments
    ELSE LET groups == MergeGroups(segments, threshold)
         IN  Tuple([k \in DOMAIN groups |-> MergedSegment(groups[k])])

\* the merged segments stored over the list that was handed in
SegmentsAfterMerge_InPlace(segments, threshold) ==
    merge_similar_segments(segments, threshold)

\* the list handed to merge_similar_segments, after the call: the function
\* appends the segments to lists of its own and makes a new dict for every
\* group of several segments
SegmentsAfterMerge(segments, threshold) == segments

-----------------------------------------------------------------------------
(* Phrase merger and subphrase eliminator *)

\* the None that merge_two_phrases returns, which is no phrase
NoPhrase == <<None>>

\* len(x.split())
WordCount(phrase) == Len(Split(phrase))

\* sorted(phrases, key=lambda x: len(x.split()), reverse=True): stable
SortedByWords(items) ==
    SortedDescending(items, Tuple([i \in DOMAIN items |-> WordCount(items[i])]))

\* hay.find(needle): 0-based position of the first occurrence, -1 when absent
FirstAt(at) == IF at = {} THEN -1 ELSE SetMin(at) - 1

Find(needle, hay) ==
    FirstAt({i \in 1..(Len(hay) - Len(needle) + 1) :
                SubSeq(hay, i, i + Len(needle) - 1) = needle})

LowerWords(words) == Tuple([k \in DOMAIN words |-> Lower(words[k])])

\* words1_lower[i:i + max_length] for the first i where the longest run starts
LongestRun(words1_lower, words2_lower, max_length) ==
    IF max_length = 0 THEN <<>>
    ELSE SubSeq(words1_lower,
                SetMin({a \in DOMAIN words1_lower :
                           \E b \in DOMAIN words2_lower :
                              CommonLength(words1_lower, words2_lower, a, b, 0)
                                  = max_length}),
                SetMin({a \in DOMAIN words1_lower :
                           \E b \in DOMAIN words2_lower :
                              CommonLength(words1_lower, words2_lower, a, b, 0)
                                  = max_length}) + max_length - 1)

\* the common sequence of two lists of lower-case words
CommonRun(words1_lower, words2_lower) ==
    LongestRun(words1_lower, words2_lower, MaxCommonLength(words1_lower, words2_lower))

find_common_sequence(words1, words2) ==
    IF words1 = <<>> \/ words2 = <<>> THEN <<>>
    ELSE CommonRun(LowerWords(words1), LowerWords(words2))

\* common_text = ' ' + ' '.join(common_sequence) + ' '
CommonText(common_sequence) == SP \o Join(common_sequence, SP) \o SP

\* f"{before} {common} {after}".strip() for the parts <<before, after>>, and
\* common alone when no strategy chose parts
Combined(parts, common) ==
    IF parts = <<>> THEN common
    ELSE Strip(parts[1] \o SP \o common \o SP \o parts[2])

\* the parts <<before, after>> that the strategies of merge_two_phrases choose
ChosenParts(before1, after1, before2, after2) ==
    IF Len(before1) > 0 /\ Len(after2) > 0 THEN <<before1, after2>>
    ELSE IF Len(before2) > 0 /\ Len(after1) > 0 THEN <<before2, after1>>
    ELSE IF Len(before1) > 0 THEN <<before1, after1>>
    ELSE IF Len(before2) > 0 THEN <<before2, after2>>
    ELSE <<>>

\* text[:start].strip() and text[end + 1:].strip() for a phrase text
PartBefore(text, start) == SubSeq(text, 1, start)
PartAfter(text, start, common_text) ==
    SubSeq(text, start + Len(common_text), Len(text))

\* the merge once the common text has been looked up in both phrases
MergeAt(phrase1, phrase2, common_text, start1, start2) ==
    IF start1 = -1 \/ start2 = -1 THEN NoPhrase
    ELSE Combined(ChosenParts(Strip(PartBefore(phrase1, start1)),
                              Strip(PartAfter(phrase1, start1, common_text)),
                              Strip(PartBefore(phrase2, start2)),
                              Strip(PartAfter(phrase2, start2, common_text))),
                  Strip(common_text))

\* the merge of two phrases around the common text
MergeAround(phrase1, phrase2, common_text) ==
    MergeAt(phrase1, phrase2, common_text,
            Find(common_text, Lower(phrase1)), Find(common_text, Lower(phrase2)))

merge_two_phrases(phrase1, phrase2, common_sequence) ==
    IF common_sequence = <<>> THEN NoPhrase
    ELSE MergeAround(phrase1, phrase2, CommonText(common_sequence))

\* min_overlap = 2 if min(len(phrase_words), len(other_words)) <= 4 else 3
MinOverlap(phrase_words, other_words) ==
    IF SetMin({Len(phrase_words), Len(other_words)}) <= 4 THEN 2 ELSE 3

\* phrase.lower().strip().split()
PhraseWords(phrase) == Split(Strip(Lower(phrase)))

\* the merge when the common sequence is long enough, else no phrase
MergeOnOverlap(phrase, other_phrase, phrase_words, other_words, common_sequence) ==
    IF /\ Len(common_sequence) >= MinOverlap(phrase_words, other_words)
       /\ 10 * Len(common_sequence)
             >= 4 * SetMin({Len(phrase_words), Len(other_words)})
    THEN merge_two_phrases(phrase, other_phrase, common_sequence)
    ELSE NoPhrase

TryMerge(phrase, other_phrase, phrase_words, other_words) ==
    IF Len(phrase_words) >= 3 /\ Len(other_words) >= 3
    THEN MergeOnOverlap(phrase, other_phrase, phrase_words, other_words,
                        find_common_sequence(phrase_words, other_words))
    ELSE NoPhrase

\* the phrases that the inner loop finds a merge with for sorted_phrases[i]
Partners(sorted_phrases, words_of, i, used_indices) ==
    {j \in DOMAIN sorted_phrases :
        /\ j # i
        /\ j \notin used_indices
        /\ TryMerge(sorted_phrases[i], sorted_phrases[j],
                    words_of[i], words_of[j]) \notin {NoPhrase, <<>>}}

\* best after the inner loop has seen the merge with partner j
Better(best, j, merged, merged_length) ==
    IF /\ merged_length > best.best_merge_length
       /\ merged_length > best.best_merge_length + 1
    THEN [best_merge |-> merged,
          best_merge_length |-> merged_length,
          merged_with |-> best.merged_with \cup {j}]
    ELSE best

BetterWith(best, j, merged) == Better(best, j, merged, WordCount(merged))

RECURSIVE BestMerge(_, _, _, _, _)
\* the inner loop over the partners j in order:
\* [best_merge, best_merge_length, merged_with]
BestMerge(sorted_phrases, words_of, i, partners, best) ==
    IF partners = {} THEN best
    ELSE BestMerge(sorted_phrases, words_of, i, partners \ {SetMin(partners)},
                   BetterWith(best, SetMin(partners),
                              TryMerge(sorted_phrases[i], sorted_phrases[SetMin(partners)],
                                       words_of[i], words_of[SetMin(partners)])))

\* done after iteration i found best
AfterMerge(done, i, best) ==
    [merged_phrases |-> Append(done.merged_phrases, best.best_merge),
     used_indices |-> done.used_indices \cup {i} \cup best.merged_with]

\* done after an iteration i that was not used before
MergeStep(sorted_phrases, words_of, i, done) ==
    AfterMerge(done, i,
        BestMerge(sorted_phrases, words_of, i,
                  Partners(sorted_phrases, words_of, i, done.used_indices),
                  [best_merge |-> sorted_phrases[i],
                   best_merge_length |-> Len(words_of[i]),
                   merged_with |-> {}]))

\* done after iteration i, which does nothing for a phrase used before
MergeIteration(sorted_phrases, words_of, i, done) ==
    IF i \in done.used_indices THEN done
    ELSE MergeStep(sorted_phrases, words_of, i, done)

RECURSIVE MergeLoop(_, _, _, _, _)
\* the iterations first..last of the loop over i, the later half of them after
\* the earlier half: [merged_phrases, used_indices]
MergeLoop(sorted_phrases, words_of, first, last, done) ==
    IF Computed(done) /\ first > last THEN done
    ELSE IF first = last THEN MergeIteration(sorted_phrases, words_of, first, done)
    ELSE MergeLoop(sorted_phrases, words_of, (first + last) \div 2 + 1, last,
                   MergeLoop(sorted_phrases, words_of, first, (first + last) \div 2,
                             done))

common_words ==
    {Chars("de"), Chars("het"), Chars("een"), Chars("van"), Chars("in"), Chars("op"),
     Chars("met"), Chars("als"), Chars("voor"), Chars("aan"), Chars("er"),
     Chars("door"), Chars("om"), Chars("tot"), Chars("ook"), Chars("maar"),
     Chars("uit"), Chars("bij"), Chars("over"), Chars("nog"), Chars("naar"),
     Chars("dan"), Chars("of"), Chars("je"), Chars("ik"), Chars("ze"), Chars("zij"),
     Chars("hij"), Chars("wij"), Chars("jij"), Chars("u"), Chars("hun"), Chars("ons"),
     Chars("mijn"), Chars("jouw"), Chars("zijn"), Chars("haar"), Chars("dit"),
     Chars("dat"), Chars("deze"), Chars("die")}

\* the second loop: is a phrase that no iteration used added on its own
IsMeaningful(phrase_words) ==
    \/ Len(phrase_words) >= 3
    \/ /\ Len(phrase_words) >= 2
       /\ \E k \in DOMAIN phrase_words :
             phrase_words[k] \notin common_words /\ Len(phrase_words[k]) >= 3

AddedUnused(phrase) == IsMeaningful(PhraseWords(phrase))

\* the merged phrases and after them the unused phrases added on their own
MergedAndUnused(sorted_phrases, done) ==
    done.merged_phrases \o
    KeepAt(sorted_phrases, {i \in DOMAIN sorted_phrases :
                               i \notin done.used_indices
                                  /\ AddedUnused(sorted_phrases[i])})

\* the two loops of merge_overlapping_phrases over the sorted phrases
MergeSorted(sorted_phrases, words_of) ==
    MergedAndUnused(sorted_phrases,
                    MergeLoop(sorted_phrases, words_of, 1, Len(sorted_phrases),
                              [merged_phrases |-> <<>>, used_indices |-> {}]))

\* phrase.lower().strip().split() of every phrase
WordsOfPhrases(sorted_phrases) ==
    Tuple([k \in DOMAIN sorted_phrases |-> PhraseWords(sorted_phrases[k])])

MergeSortedPhrases(sorted_phrases) ==
    MergeSorted(sorted_phrases, WordsOfPhrases(sorted_phrases))

merge_overlapping_phrases(phrase_list) ==
    IF Len(phrase_list) <= 1 THEN phrase_list
    ELSE MergeSortedPhrases(SortedByWords(phrase_list))

\* is phrase a run of whole words of a phrase of more words already kept
IsSubphraseOf(phrase, existing_phrase) ==
    LET phrase_lower == Strip(Lower(phrase))
        existing_lower == Strip(Lower(existing_phrase))
    IN  /\ Len(Split(phrase_lower)) < Len(Split(existing_lower))
        /\ In(SP \o phrase_lower \o SP, SP \o existing_lower \o SP)

\* kept after one iteration: a phrase is kept unless one kept before holds it
KeepPhrase(phrase, kept) ==
    IF \E e \in DOMAIN kept : IsSubphraseOf(phrase, kept[e]) THEN kept
    ELSE Append(kept, phrase)

RECURSIVE KeepPhrases(_, _, _, _)
\* the iterations first..last of the loop over sorted_phrases, the later half
\* of them after the earlier half
KeepPhrases(sorted_phrases, first, last, kept) ==
    IF Computed(kept) /\ first > last THEN kept
    ELSE IF first = last THEN KeepPhrase(sorted_phrases[first], kept)
    ELSE KeepPhrases(sorted_phrases, (first + last) \div 2 + 1, last,
                     KeepPhrases(sorted_phrases, first, (first + last) \div 2, kept))

remove_true_subphrases(phrase_list) ==
    IF Len(phrase_list) <= 1 THEN phrase_list
    ELSE KeepPhrases(SortedByWords(phrase_list), 1, Len(phrase_list), <<>>)

-----------------------------------------------------------------------------
(* Stopword filters.  An item of a keyword list is the (phrase, score) tuple *)
(* [phrase, score], the score in hundredths, or the bare string [str].       *)

DUTCH_STOPWORDS ==
    {Chars(w) : w \in {
        "de", "het", "een", "en", "van", "in", "te", "dat", "die", "is",
        "op", "met", "als", "voor", "aan", "er", "door", "om", "tot", "ook",
        "maar", "uit", "bij", "over", "nog", "naar", "dan", "of", "je", "ik",
        "ze", "zij", "hij", "wij", "jij", "u", "hun", "ons", "mijn", "jouw",
        "zijn", "haar", "dit", "deze", "niet", "hebben", "daar", "heeft",
        "eigenlijk", "heel", "gaat", "gaan", "toch", "want", "elkaar",
        "even", "waar", "natuurlijk", "veel", "meer", "moet", "kunnen",
        "wordt", "gewoon", "worden", "echt", "komen", "komt", "hier", "niks",
        "gevonden", "twee", "drie", "vier", "vijf", "zes", "zeven", "acht",
        "negen", "tien", "goed", "doen", "moeten", "maken", "soort", "onze",
        "omdat", "kwam", "iemand", "blijven", "vaak", "jaar", "denk", "weer",
        "staat", "waren", "geen", "vandaag", "bijvoorbeeld", "zeggen",
        "grote", "tijd", "muziek", "iets", "eigen", "vooral", "toen",
        "eerste", "tweede", "derde", "vierde", "vijfde", "zesde", "zevende",
        "achtste", "negende", "tiende", "vind", "laten", "altijd", "andere",
        "alle", "woord", "gebruiken", "moment", "zelf", "zien", "jullie",
        "terug", "kijken", "hebt", "weet", "hele", "dingen", "helemaal",
        "verschillende", "inderdaad", "beter", "misschien", "manier",
        "dacht", "uiteindelijk", "beetje", "ging", "gemaakt", "vanuit",
        "werd", "vond", "best", "alleen", "groep", "honderd", "iedereen",
        "weken", "groot", "allemaal", "gedaan", "lang", "zeker", "meter",
        "dagen", "gegeven", "leuk", "keer", "zaten", "mooi", "deden",
        "willen", "begint", "ervoor", "minder", "weten", "onder", "steeds",
        "stellen", "anders", "alles", "hadden", "zegt", "juist", "oude",
        "bent", "vindt", "volgend", "laatste", "minuten", "vanaf", "tegen",
        "samen", "laag", "zoals", "tevoren", "eerder", "maakt", "vorig",
        "nieuwe", "ligt", "jonge", "staan", "zich", "ziet", "kijk", "week",
        "eens", "klein", "volgende", "lijkt", "tussen", "stuk", "geworden",
        "dus", "zo", "snel", "elke", "we", "it", "have", "had", "you", "ja",
        "ben", "kan", "wel", "nou", "waarom", "denken", "leren", "paar",
        "soms", "wat", "was", "wil", "zeer", "zeg", "hem", "zie", "heb",
        "liever", "bijna", "zou", "zouden", "ga", "kom", "doe", "maak",
        "vinden", "mij", "me", "jou", "uw", "welke", "welk", "wie",
        "wanneer", "hoe", "al", "hoor", "hè", "hé"}}

\* the set the pipeline hands to the filters for KeyBERT results
basic_stopwords ==
    {Chars(w) : w \in {
        "de", "het", "een", "en", "van", "in", "te", "dat", "die", "is",
        "op", "met", "als", "voor", "aan", "er", "door", "om", "tot", "ook",
        "maar", "uit", "bij", "over", "nog", "naar", "dan", "of", "je", "ik",
        "ze", "zij", "hij", "wij", "jij", "u", "hun", "ons", "mijn", "jouw",
        "zijn", "haar", "dit", "deze"}}

\* isinstance(kw, (list, tuple)) and len(kw) > 0
IsTuple(kw) == "phrase" \in DOMAIN kw

\* the scored list as the bare strings the pipeline takes out of it
AsStrings(keywords) ==
    Tuple([i \in DOMAIN keywords |-> [str |-> keywords[i].phrase]])

\* the texts of (phrase, score) tuples
Texts(keywords) == Tuple([i \in DOMAIN keywords |-> keywords[i].phrase])

HasSpace(t) == \E i \in DOMAIN t : t[i] = " "

\* sum(1 for word in words_in_phrase if word in stopwords)
StopwordCount(words, stopwords) ==
    Cardinality({i \in DOMAIN words : words[i] \in stopwords})

\* stopword_count / total_words <= max_allowed for the table of the filter
WithinCeiling(stopword_count, total_words) ==
    IF total_words >= 6 THEN stopword_count <= 5
    ELSE IF total_words = 5 THEN 5 * stopword_count <= 4 * total_words
    ELSE IF total_words = 4 THEN 4 * stopword_count <= 3 * total_words
    ELSE IF total_words = 3 THEN 3 * stopword_count <= 2 * total_words
    ELSE 2 * stopword_count <= total_words

\* does the loop of filter_phrases_robust append the phrase of kw
KeepsPhrase(kw, stopwords) ==
    /\ IsTuple(kw)
    /\ kw.phrase # <<>>
    /\ HasSpace(kw.phrase)
    /\ LET Kept(words_in_phrase, stopword_count, total_words) ==
               /\ total_words > 0
               /\ WithinCeiling(stopword_count, total_words)
               /\ stopword_count # total_words
               /\ (total_words = 2 /\ stopword_count = 1)
                     => \A i \in DOMAIN words_in_phrase :
                           words_in_phrase[i] \notin stopwords
                              => Len(words_in_phrase[i]) >= 3
           Checked(words_in_phrase) ==
               Kept(words_in_phrase, StopwordCount(words_in_phrase, stopwords),
                    Len(words_in_phrase))
       IN  Checked(Split(kw.phrase))

\* the post-processing without the limit on 2-word phrases
BalancedPhrases_Uncapped(filtered_phrases) ==
    remove_true_subphrases(merge_overlapping_phrases(SortedByWords(filtered_phrases)))

\* the post-processing of a result of more than 20 phrases; int(n * 0.35) is
\* the exact floor for every n below 180
BalancedPhrases(filtered_phrases) ==
    LET Limited(two_word_phrases, max_two_word) ==
            IF Len(two_word_phrases) > max_two_word
            THEN SubSeq(two_word_phrases, 1, max_two_word)
            ELSE two_word_phrases
        Balanced(word_counts) ==
            KeepAt(filtered_phrases, {i \in DOMAIN filtered_phrases : word_counts[i] >= 4})
               \o KeepAt(filtered_phrases,
                         {i \in DOMAIN filtered_phrases : word_counts[i] = 3})
               \o Limited(KeepAt(filtered_phrases,
                                 {i \in DOMAIN filtered_phrases : word_counts[i] = 2}),
                          (35 * Len(filtered_phrases)) \div 100)
    IN  remove_true_subphrases(merge_overlapping_phrases(
            Balanced(Tuple([i \in DOMAIN filtered_phrases |->
                              WordCount(filtered_phrases[i])]))))

filter_phrases_robust(phrase_items, stopwords) ==
    LET Result(filtered_phrases) ==
            IF Len(filtered_phrases) > 20 THEN BalancedPhrases(filtered_phrases)
            ELSE filtered_phrases
    IN  IF phrase_items = <<>> \/ stopwords = {} THEN <<>>
        ELSE Result(Texts(KeepAt(phrase_items,
                        {i \in DOMAIN phrase_items :
                            KeepsPhrase(phrase_items[i], stopwords)})))

\* the filter with the test of the first copy in the module: the lower-cased
\* word is no stopword and the word has three characters or more
filter_words_robust_AtLeast3(word_items, stopwords) ==
    IF word_items = <<>> \/ stopwords = {} THEN <<>>
    ELSE Texts(KeepAt(word_items, {i \in DOMAIN word_items :
                                      /\ IsTuple(word_items[i])
                                      /\ word_items[i].phrase # <<>>
                                      /\ ~HasSpace(word_items[i].phrase)
                                      /\ Lower(word_items[i].phrase) \notin stopwords
                                      /\ Len(word_items[i].phrase) >= 3}))

filter_words_robust(word_items, stopwords) ==
    IF word_items = <<>> \/ stopwords = {} THEN <<>>
    ELSE Texts(KeepAt(word_items, {i \in DOMAIN word_items :
                                      /\ IsTuple(word_items[i])
                                      /\ word_items[i].phrase # <<>>
                                      /\ ~HasSpace(word_items[i].phrase)
                                      /\ word_items[i].phrase \notin stopwords}))

-----------------------------------------------------------------------------
(* Transcript of a recording *)

song_titles ==
    <<"intro", "outro", "jingle", "theme", "song", "lied", "nummer", "hit",
      "single", "album", "artiest", "zanger", "zangeres", "band", "groep",
      "muziek", "melodie", "ritme", "beat", "refrein", "couplet", "bridge",
      "solo", "instrumentaal", "acapella", "karaoke">>

music_indicators ==
    <<"speelt", "zingt", "zong", "gezongen", "gespeeld", "muziek", "melodie",
      "ritme", "instrumenten", "gitaar", "piano", "drums", "bas", "viool",
      "trompet", "saxofoon", "orkest", "koor", "ensemble", "concert",
      "optreden", "festival", "muziekwinkel">>

\* the words that count as repetitive in a segment of 11 to 49 words
RepetitiveWords(text) ==
    LET words == LowerWords(Split(text))
    IN  IF Len(words) > 10 /\ Len(words) < 50
        THEN {words[i] : i \in {k \in DOMAIN words :
                /\ words[k] \notin DUTCH_STOPWORDS
                /\ Len(words[k]) > 2
                /\ Cardinality({j \in DOMAIN words : words[j] = words[k]}) > 3}}
        ELSE {}

MusicScore(text) ==
    LET text_lower == Lower(text)
    IN  2 * Cardinality({k \in DOMAIN song_titles :
                            In(Chars(song_titles[k]), text_lower)})
        + Cardinality({k \in DOMAIN music_indicators :
                            In(Chars(music_indicators[k]), text_lower)})
        + Cardinality(RepetitiveWords(text))

MusicFiltered == Chars("[MUSIC_FILTERED] ")

filter_music_transcription(text) ==
    IF text = <<>> THEN text
    ELSE IF MusicScore(text) >= 3 THEN MusicFiltered \o text
    ELSE text

\* " ".join(filtered_segments) over the merged segments with a text
Transcript(merged) ==
    LET spoken == KeepAt(merged, {i \in DOMAIN merged : Strip(merged[i].text) # <<>>})
    IN  Join(Tuple([i \in DOMAIN spoken |->
                       filter_music_transcription(spoken[i].text)]), SP)

-----------------------------------------------------------------------------
(* Keypoints from KeyBERT results *)

\* the words of window that stand where phrase_words has them
MatchingWords(phrase_words, window) ==
    Cardinality({j \in DOMAIN phrase_words :
                    j <= Len(window) /\ phrase_words[j] = window[j]})

\* the windows of transcript_words that are the phrase or, from 4 words on,
\* have 80% of its words in place
MatchingWindows(phrase_normalized, phrase_words, n, transcript_words) ==
    LET Matches(window) ==
            \/ Lower(Join(window, SP)) = phrase_normalized
            \/ n >= 4 /\ 10 * MatchingWords(phrase_words, window) >= 8 * n
    IN  Cardinality({i \in 1..(Len(transcript_words) - n + 1) :
                        Matches(SubSeq(transcript_words, i, i + n - 1))})

count_phrase_occurrences(phrase, transcript_words) ==
    LET Counted(phrase_normalized, phrase_words, count) ==
            IF count # 0 THEN count
            ELSE MatchingWindows(phrase_normalized, phrase_words, Len(phrase_words),
                                 transcript_words)
        Of(phrase_normalized, phrase_words) ==
            Counted(phrase_normalized, phrase_words,
                    Count(phrase_normalized, Lower(Join(transcript_words, SP))))
        Normalized(phrase_words) == Of(Join(phrase_words, SP), phrase_words)
    IN  Normalized(Split(Lower(phrase)))

\* the results with more than min_score that occur in the transcript
OccurringAbove(keywords, min_score, transcript_words) ==
    KeepAt(keywords, {i \in DOMAIN keywords :
                         /\ keywords[i].score > min_score
                         /\ count_phrase_occurrences(keywords[i].phrase,
                                                     transcript_words) >= 1})

ScoredAbove(keywords, min_score) ==
    KeepAt(keywords, {i \in DOMAIN keywords : keywords[i].score > min_score})

Take(seq, n) == SubSeq(seq, 1, IF Len(seq) < n THEN Len(seq) ELSE n)

\* [filtered_keywords_phrases, filtered_keywords_medium] after the frequency
\* filter and its fallback strategy
FrequencyFiltered(kw_phrases, kw_medium, transcript_words) ==
    LET Chosen(by_frequency_phrases, by_frequency_medium) ==
            IF Len(by_frequency_phrases) < 8 \/ Len(by_frequency_medium) < 8
            THEN [filtered_keywords_phrases |-> ScoredAbove(kw_phrases, 8),
                  filtered_keywords_medium |-> ScoredAbove(kw_medium, 5)]
            ELSE [filtered_keywords_phrases |-> by_frequency_phrases,
                  filtered_keywords_medium |-> by_frequency_medium]
    IN  Chosen(OccurringAbove(kw_phrases, 10, transcript_words),
               OccurringAbove(kw_medium, 8, transcript_words))

\* filtered_phrases (or filtered_medium) from a filtered keyword list: the
\* stopword filter on the bare strings, then the results above low_score, then
\* below 8 of them the stopword filter again on the strings with the extended
\* results appended
SelectedPhrases(filtered_keywords, low_score, most) ==
    LET Extended(lenient) ==
            IF Len(lenient) < 8
            THEN filter_phrases_robust(AsStrings(filtered_keywords), DUTCH_STOPWORDS)
            ELSE lenient
        Lenient(filtered) ==
            Extended(IF Len(filtered) < 10
                     THEN Take(Texts(ScoredAbove(filtered_keywords, low_score)), most)
                     ELSE filtered)
    IN  Lenient(filter_phrases_robust(AsStrings(filtered_keywords), basic_stopwords))

SelectedWords(kw_words) ==
    LET Lenient(filtered_words) ==
            IF Len(filtered_words) < 5 /\ Len(kw_words) > 0
            THEN filter_words_robust(kw_words, basic_stopwords)
            ELSE filtered_words
    IN  Lenient(filter_words_robust(kw_words, DUTCH_STOPWORDS))

WordsOnly(terms) == KeepAt(terms, {i \in DOMAIN terms : ~HasSpace(terms[i])})

PhrasesOnly(terms) == KeepAt(terms, {i \in DOMAIN terms : HasSpace(terms[i])})

\* the merger applied to the phrases of a list of more than one term
MergedTerms(terms) ==
    IF Len(terms) > 1
    THEN WordsOnly(terms) \o merge_overlapping_phrases(PhrasesOnly(terms))
    ELSE terms

\* phrase is in a longer phrase that has over two words more
IsObviousSubphrase(phrase, longer_phrases) ==
    \E k \in DOMAIN longer_phrases :
        /\ In(Lower(phrase), Lower(longer_phrases[k]))
        /\ WordCount(phrase) < WordCount(longer_phrases[k]) - 2

\* the lenient removal of subphrases from the KeyBERT keypoints
WithoutObviousSubphrases(terms) ==
    LET Kept(longer_phrases, short_phrases) ==
            WordsOnly(terms) \o longer_phrases
               \o KeepAt(short_phrases, {i \in DOMAIN short_phrases :
                       ~IsObviousSubphrase(short_phrases[i], longer_phrases)})
        BySize(phrases_only_final, word_counts) ==
            Kept(KeepAt(phrases_only_final,
                        {i \in DOMAIN phrases_only_final : word_counts[i] >= 8})
                    \o KeepAt(phrases_only_final,
                              {i \in DOMAIN phrases_only_final :
                                  5 <= word_counts[i] /\ word_counts[i] < 8}),
                 KeepAt(phrases_only_final,
                        {i \in DOMAIN phrases_only_final : word_counts[i] < 5}))
        Of(phrases_only_final) ==
            BySize(phrases_only_final,
                   Tuple([i \in DOMAIN phrases_only_final |->
                            WordCount(phrases_only_final[i])]))
    IN  IF Len(terms) > 1 THEN Of(PhrasesOnly(terms)) ELSE terms

\* the keypoints of the KeyBERT branch
KeyBERTKeypoints(text, kw_phrases, kw_medium, kw_words) ==
    LET Selected(by_frequency) ==
            WithoutObviousSubphrases(MergedTerms(
                SelectedWords(kw_words)
                   \o SelectedPhrases(by_frequency.filtered_keywords_phrases, 15, 30)
                   \o SelectedPhrases(by_frequency.filtered_keywords_medium, 10, 25)))
    IN  Selected(FrequencyFiltered(kw_phrases, kw_medium, Split(Lower(text))))

-----------------------------------------------------------------------------
(* Keypoints from word and phrase frequencies *)

Digits == {"0", "1", "2", "3", "4", "5", "6", "7", "8", "9"}

\* the characters that \w matches
IsWordChar(c) ==
    c \in Range(LowerLetters) \cup Range(UpperLetters) \cup Digits \cup {"_"}

IsSentenceEnd(c) == c \in {".", "!", "?"}

\* re.findall(r'\w+', s)
Findall(s) == RunsOf(s, {i \in DOMAIN s : IsWordChar(s[i])})

\* re.split(r'[.!?]+', s) without the empty strings, which hold no word
Sentences(s) == RunsOf(s, {i \in DOMAIN s : ~IsSentenceEnd(s[i])})

\* can the n words be a phrase of the frequency method
IsFrequencyPhrase(gram) ==
    LET Allowed(n, stopwords, stopword_count, non_stopwords) ==
            CASE n = 5 ->
                    /\ stopword_count <= 2
                    /\ Len(non_stopwords) >= 3
                    /\ \A i \in DOMAIN non_stopwords : Len(non_stopwords[i]) >= 3
              [] n \in {3, 4} ->
                    /\ stopword_count <= n - 1
                    /\ Len(non_stopwords) >= 1
                    /\ \A i \in DOMAIN non_stopwords : Len(non_stopwords[i]) >= 2
              [] n = 2 ->
                    /\ stopword_count <= 1
                    /\ Len(IF gram[1] \notin stopwords THEN gram[1] ELSE gram[2]) >= 3
        Checked(stopwords) ==
            Allowed(Len(gram), stopwords, StopwordCount(gram, stopwords),
                    KeepAt(gram, {i \in DOMAIN gram : gram[i] \notin stopwords}))
    IN  Checked(DUTCH_STOPWORDS)

\* the phrases of n words of a sentence, in the order of the sentence
Grams(sentence_words, n) ==
    LET Phrases(first) ==
            Tuple([k \in DOMAIN first |->
                     Join(SubSeq(sentence_words, first[k], first[k] + n - 1), SP)])
    IN  Phrases(SortedSeq({i \in 1..(Len(sentence_words) - n + 1) :
                              IsFrequencyPhrase(SubSeq(sentence_words, i, i + n - 1))}))

\* the list phrases after one sentence
WithSentence(found, sentence) ==
    LET Filled(longer, pairs) ==
            IF Len(longer) < 30 THEN longer \o Take(pairs, 55 - Len(longer))
            ELSE longer
        Added(grams) == Filled(found \o grams[5] \o grams[4] \o grams[3], grams[2])
        Of(sentence_words) ==
            IF Len(sentence_words) < 2 THEN found
            ELSE Added([n \in 2..5 |-> Grams(sentence_words, n)])
    IN  Of(Findall(Strip(sentence)))

RECURSIVE FrequencyPhrases(_, _, _, _)
\* the iterations first..last of the loop over the sentences, the later half
\* of them after the earlier half
FrequencyPhrases(sentences, first, last, found) ==
    IF Computed(found) /\ first > last THEN found
    ELSE IF first = last THEN WithSentence(found, sentences[first])
    ELSE FrequencyPhrases(sentences, (first + last) \div 2 + 1, last,
                          FrequencyPhrases(sentences, first, (first + last) \div 2,
                                           found))

\* the list phrases after the loop over all sentences
SentencePhrases(sentences) == FrequencyPhrases(sentences, 1, Len(sentences), <<>>)

\* the subphrase eliminator applied to the phrases of a list of more than one term
WithoutSubphrases(terms) ==
    IF Len(terms) > 1
    THEN WordsOnly(terms) \o remove_true_subphrases(PhrasesOnly(terms))
    ELSE terms

\* the different terms in the order of their first occurrence
Distinct(terms) ==
    KeepAt(terms, {i \in DOMAIN terms : \A j \in 1..(i - 1) : terms[j] # terms[i]})

\* the items by their field count, largest first
ByCount(counted) ==
    SortedDescending(counted, Tuple([i \in DOMAIN counted |-> counted[i].count]))

CountOf(x, terms) == Cardinality({i \in DOMAIN terms : terms[i] = x})

\* Counter(terms).most_common(n) as [term, count]
MostCommon(terms, n) ==
    LET Counted(elements) ==
            Tuple([i \in DOMAIN elements |->
                     [term |-> elements[i], count |-> CountOf(elements[i], terms)]])
    IN  Take(ByCount(Counted(Distinct(terms))), n)

Terms(counted) == Tuple([i \in DOMAIN counted |-> counted[i].term])

\* the characters of the model in the order of their code points
CodePoints ==
    <<" ", "!", ",", "-", ".">> \o <<"0", "1", "2", "3", "4", "5", "6", "7", "8", "9">>
        \o <<"?">> \o UpperLetters \o <<"[", "]", "_">> \o LowerLetters

Ord(c) == CHOOSE i \in DOMAIN CodePoints : CodePoints[i] = c

\* the key (len(x[0].split()), x[1]) of a phrase x
FirstCharKey(x) == 100 * (IF IsSpace(x[1]) THEN 0 ELSE 1) + Ord(x[2])

\* the key (len(x.split()), x[1]) of a phrase x
WordCountKey(x) == 100 * WordCount(x) + Ord(x[2])

\* the phrases of a most_common list that occur min_count times and have
\* min_words words
PhrasesOccurring(frequent, min_count, min_words) ==
    Terms(KeepAt(frequent, {i \in DOMAIN frequent :
                               /\ HasSpace(frequent[i].term)
                               /\ frequent[i].count >= min_count
                               /\ WordCount(frequent[i].term) >= min_words}))

\* all_phrases.sort(key=lambda x: (len(x[0].split()), x[1]), reverse=True)
ByFirstChar(all_phrases) ==
    SortedDescending(all_phrases,
        Tuple([i \in DOMAIN all_phrases |-> FirstCharKey(all_phrases[i])]))

\* multiple_occurrence_phrases.sort(key=lambda x: (len(x.split()), x[1]), reverse=True)
ByWordCount(multiple_occurrence_phrases) ==
    SortedDescending(multiple_occurrence_phrases,
        Tuple([i \in DOMAIN multiple_occurrence_phrases |->
                  WordCountKey(multiple_occurrence_phrases[i])]))

\* top_phrases of the frequency method
TopPhrases(all_terms) ==
    LET Chosen(top_phrases, repeated, multiple_occurrence_phrases) ==
            IF Len(top_phrases) >= 10 THEN top_phrases
            ELSE IF Len(repeated) >= 15 THEN repeated
            ELSE repeated \o Take(ByWordCount(multiple_occurrence_phrases), 15)
        From(occurring) ==
            Chosen(Take(occurring[1], 35), Take(ByFirstChar(occurring[2]), 25),
                   occurring[3])
        \* most_common(300) is the first 300 of most_common(400)
        Among(frequent, most_frequent) ==
            From(<<PhrasesOccurring(frequent, 1, 0), PhrasesOccurring(frequent, 2, 0),
                   PhrasesOccurring(most_frequent, 1, 3)>>)
        Counted(most_frequent) == Among(Take(most_frequent, 300), most_frequent)
    IN  Counted(MostCommon(all_terms, 400))

\* top_single_words of the frequency method
TopSingleWords(all_terms) ==
    LET LongWords(all_single_words) ==
            KeepAt(all_single_words, {i \in DOMAIN all_single_words :
                                         Len(all_single_words[i]) > 3})
        Chosen(top_single_words, most_common) ==
            IF Len(top_single_words) < 5
            THEN Take(LongWords(WordsOnly(Terms(most_common))), 20)
            ELSE top_single_words
        \* most_common(100) is the first 100 of most_common(200)
        Among(most_common) ==
            Chosen(Take(WordsOnly(Terms(Take(most_common, 100))), 20), most_common)
    IN  Among(MostCommon(all_terms, 200))

\* the words of over min_length characters that are no stopword
ContentWords(words, min_length) ==
    KeepAt(words, {i \in DOMAIN words :
                      words[i] \notin DUTCH_STOPWORDS /\ Len(words[i]) > min_length})

\* the keypoints of the frequency method
FallbackKeypoints(text) ==
    LET Top(all_terms) ==
            CASE Computed(all_terms) ->
                    TopSingleWords(all_terms) \o TopPhrases(all_terms)
        Of(text_lower) ==
            Top(WithoutSubphrases(MergedTerms(
                    ContentWords(Findall(text_lower), 3)
                        \o SentencePhrases(Sentences(text_lower)))))
    IN  Of(Lower(text))

\* the most common words when the frequency method found no keypoint
UltimateFallbackKeypoints(text) ==
    LET Chosen(fallback_words, all_words) ==
            Terms(IF fallback_words # <<>> THEN MostCommon(fallback_words, 20)
                  ELSE MostCommon(all_words, 15))
        Of(words) ==
            Chosen(ContentWords(words, 2),
                   KeepAt(words, {i \in DOMAIN words : Len(words[i]) > 3}))
    IN  Of(Findall(Lower(text)))

\* keypoints after the frequency method and the emergency method behind it
FrequencyKeypoints(text) ==
    LET Checked(all_keypoints) ==
            IF all_keypoints = <<>> /\ Strip(text) # <<>>
            THEN UltimateFallbackKeypoints(text)
            ELSE all_keypoints
    IN  Checked(FallbackKeypoints(text))

-----------------------------------------------------------------------------
(* Timestamps of the keypoints.  keypoint_times is the insertion-ordered     *)
(* dict, a sequence of [phrase, times].                                      *)

\* the start of seg once for every place kp has in the list keypoints
StartsFor(kp, kps, seg) ==
    IF In(Lower(kp), Lower(seg.text))
    THEN Tuple([n \in 1..CountOf(kp, kps) |-> seg.start])
    ELSE <<>>

RECURSIVE TimesOf(_, _, _, _, _)
\* the starts appended for kp by the segments first..last, in their order
TimesOf(kp, kps, segments, first, last) ==
    IF first > last THEN <<>>
    ELSE IF first = last THEN StartsFor(kp, kps, segments[first])
    ELSE TimesOf(kp, kps, segments, first, (first + last) \div 2)
            \o TimesOf(kp, kps, segments, (first + last) \div 2 + 1, last)

\* the loop over all segments and all keypoints
FindKeypointTimes(kps, segments) ==
    LET keys == Distinct(kps)
    IN  Tuple([i \in DOMAIN keys |->
                 [phrase |-> keys[i], times |-> TimesOf(keys[i], kps, segments, 1, Len(segments))]])

\* the segments after that loop, which reads seg["text"] and seg["start"]
SegmentsAfterLookup(kps, segments) == segments

\* every entry, with timestamps or without
WithTimes_All(times_dict) == times_dict

\* the entries with timestamps
WithTimes(times_dict) ==
    KeepAt(times_dict, {i \in DOMAIN times_dict : times_dict[i].times # <<>>})

\* the keypoints the pipeline writes out
DeduplicatedTimes(times_dict) ==
    IF times_dict = <<>> THEN times_dict
    ELSE deduplicate_phrases(WithTimes(times_dict))

-----------------------------------------------------------------------------
(* Inputs of the similarity runs *)

\* most words in a text handed to the similarity functions
MaxSimWords == 4

SimVocab == {<<"a">>, <<"b">>, <<"a", "b">>}

WordSeqs(V, n) == UNION {[1..k -> V] : k \in 0..n}

\* the ways a text can spell a sequence of words
Spellings == {"plain", "padded", "wide", "upper"}

Spell(ws, how) ==
    CASE how = "plain"  -> Join(ws, SP)
      [] how = "padded" -> SP \o Join(ws, SP) \o SP
      [] how = "wide"   -> Join(ws, <<" ", " ">>)
      [] how = "upper"  -> LET s == Join(ws, SP)
                           IN  [i \in DOMAIN s |->
                                  IF i = 1 /\ s[i] = "a" THEN "A" ELSE s[i]]

\* words in the texts that are tried in every spelling
SpelledWords == 2

PlainTexts == {Spell(ws, "plain") : ws \in WordSeqs(SimVocab, MaxSimWords)}

\* the first argument: every plain text, and every spelling of the short ones
SimTexts ==
    PlainTexts \cup {Spell(ws, how) : ws \in WordSeqs(SimVocab, SpelledWords),
                                      how \in Spellings}

\* the second argument: every plain text, and every spelling of one word
SimTexts2 ==
    PlainTexts \cup {Spell(ws, how) : ws \in WordSeqs(SimVocab, SpelledWords - 1),
                                      how \in Spellings}

simVars == <<text1, text2, sim12, sim21, simU12, simU21>>
dedupVars == <<phrases_with_times, deduplicated, deduplicated_again>>
segVars == <<all_segments, similarity_threshold, similar_groups, merged_segments>>
phraseVars == <<phrases, merged_phrases, remaining_phrases>>
pipeVars == <<transcript, keybert_available, keywords_phrases, keywords_medium,
              keywords_words, keypoints, entered, run_number, first_run, kw_model,
              keypoint_times>>
appVars == <<app_text, audio_duration, app_keybert_available, app_keypoint_times,
             results, extracted>>
itemVars == <<given, bad_at, outcome, outcome_without>>
artifactVars == <<checked_text, is_artifact, utils_is_artifact>>
filterVars == <<filter_input, filter_stopwords, filter_output>>
recVars == <<is_recording, stop_event, recording_thread, recorders, main_thread, transcriptions, Popen, last_click, click_parity, ignored_clicks>>
listenVars == <<is_listening, listen_process, listeners, pending_resets>>
chunkVars == <<num_chunks, chunk_i, chunk_pc, retry, response, chunk_segments, chunk_log>>

SimIdle ==
    /\ text1 = None /\ text2 = None
    /\ sim12 = None /\ sim21 = None
    /\ simU12 = None /\ simU21 = None

DedupIdle ==
    /\ phrases_with_times = None
    /\ deduplicated = None
    /\ deduplicated_again = None

SegIdle ==
    /\ all_segments = None
    /\ similarity_threshold = None
    /\ similar_groups = None
    /\ merged_segments = None

PhraseIdle ==
    /\ phrases = None
    /\ merged_phrases = None
    /\ remaining_phrases = None

PipeIdle ==
    /\ transcript = None
    /\ keybert_available = None
    /\ keywords_phrases = None
    /\ keywords_medium = None
    /\ keywords_words = None
    /\ keypoints = None
    /\ entered = None
    /\ run_number = None
    /\ first_run = None
    /\ kw_model = None
    /\ keypoint_times = None

ItemIdle ==
    /\ given = None
    /\ bad_at = None
    /\ outcome = None
    /\ outcome_without = None

ArtifactIdle ==
    /\ checked_text = None
    /\ is_artifact = None
    /\ utils_is_artifact = None

FilterIdle ==
    /\ filter_input = None
    /\ filter_stopwords = None
    /\ filter_output = None

RecIdle ==
    /\ is_recording = None
    /\ stop_event = None
    /\ recording_thread = None
    /\ recorders = None
    /\ main_thread = None
    /\ transcriptions = None
    /\ Popen = None
    /\ last_click = None
    /\ click_parity = None
    /\ ignored_clicks = None

ListenIdle ==
    /\ is_listening = None
    /\ listen_process = None
    /\ listeners = None
    /\ pending_resets = None

ChunkIdle ==
    /\ num_chunks = None
    /\ chunk_i = None
    /\ chunk_pc = None
    /\ retry = None
    /\ response = None
    /\ chunk_segments = None
    /\ chunk_log = None

AppIdle ==
    /\ app_text = None
    /\ audio_duration = None
    /\ app_keybert_available = None
    /\ app_keypoint_times = None
    /\ results = None
    /\ extracted = None

InitSim ==
    /\ pc = "sim_call"
    /\ text1 \in SimTexts
    /\ text2 \in SimTexts2
    /\ sim12 = None /\ sim21 = None
    /\ simU12 = None /\ simU21 = None
    /\ DedupIdle
    /\ SegIdle
    /\ PhraseIdle
    /\ PipeIdle
    /\ AppIdle
    /\ ItemIdle
    /\ ArtifactIdle
    /\ FilterIdle
    /\ RecIdle
    /\ ListenIdle
    /\ ChunkIdle

\* one call of each similarity function in each argument order
Similarity ==
    /\ pc = "sim_call"
    /\ sim12' = calculate_text_similarity(text1, text2)
    /\ sim21' = calculate_text_similarity(text2, text1)
    /\ simU12' = calculate_similarity(text1, text2)
    /\ simU21' = calculate_similarity(text2, text1)
    /\ pc' = "sim_done"
    /\ UNCHANGED <<text1, text2>>
    /\ UNCHANGED <<dedupVars, segVars, phraseVars, pipeVars, appVars, itemVars, artifactVars, filterVars, recVars, listenVars, chunkVars>>

NextSim == Similarity

SpecSim == InitSim /\ [][NextSim]_vars

-----------------------------------------------------------------------------
(* Inputs of the deduplication runs *)

\* most keypoints in a list handed to deduplicate_phrases
MaxKeypoints == 3

CoronaMaatregelen == Chars("corona maatregelen")

DeNieuweCoronaMaatregelen == Chars("de nieuwe corona maatregelen")

DedupPhrases ==
    {CoronaMaatregelen, DeNieuweCoronaMaatregelen,
     Chars("ab c"), Chars("b cd"), Chars("ab cd"), Chars("Ab  c"), Chars("x y")}

TimeLists == {<<5>>, <<5, 40>>}

Keypoints == [phrase : DedupPhrases, times : TimeLists]

\* lists of keypoints with pairwise different raw phrases
KeypointLists ==
    {l \in UNION {[1..k -> Keypoints] : k \in 0..MaxKeypoints} :
        \A i, j \in DOMAIN l : i # j => l[i].phrase # l[j].phrase}

InitDedup ==
    /\ pc = "dedup_call"
    /\ phrases_with_times \in KeypointLists
    /\ deduplicated = None
    /\ deduplicated_again = None
    /\ SimIdle
    /\ SegIdle
    /\ PhraseIdle
    /\ PipeIdle
    /\ AppIdle
    /\ ItemIdle
    /\ ArtifactIdle
    /\ FilterIdle
    /\ RecIdle
    /\ ListenIdle
    /\ ChunkIdle

Deduplicate ==
    /\ pc = "dedup_call"
    /\ deduplicated' = deduplicate_phrases(phrases_with_times)
    /\ pc' = "dedup_once"
    /\ UNCHANGED <<phrases_with_times, deduplicated_again>>
    /\ UNCHANGED <<simVars, segVars, phraseVars, pipeVars, appVars, itemVars, artifactVars, filterVars, recVars, listenVars, chunkVars>>

DeduplicateAgain ==
    /\ pc = "dedup_once"
    /\ deduplicated_again' = deduplicate_phrases(deduplicated)
    /\ pc' = "dedup_twice"
    /\ UNCHANGED <<phrases_with_times, deduplicated>>
    /\ UNCHANGED <<simVars, segVars, phraseVars, pipeVars, appVars, itemVars, artifactVars, filterVars, recVars, listenVars, chunkVars>>

NextDedup == Deduplicate \/ DeduplicateAgain

SpecDedup == InitDedup /\ [][NextDedup]_vars

-----------------------------------------------------------------------------
(* Inputs of the segment merger runs *)

\* most segments in a list handed to merge_similar_segments
MaxSegments == 3

\* the prompt handed to the transcriber with every chunk
WhisperPrompt ==
    Chars("Dit is een Nederlandse radio-uitzending met nieuws, discussies, ")
    \o Chars("interviews en gesprekken. Focus op spraak en gesprekken, niet op ")
    \o Chars("muziek. De transcriptie moet alle belangrijke woorden en zinnen ")
    \o Chars("bevatten, maar muziekteksten en jingles kunnen worden overgeslagen.")

HetWeer == Chars("het weer wordt morgen zonnig")

HetWeerEnWarm == Chars("het weer wordt morgen zonnig en warm")

SegTexts ==
    {HetWeer, HetWeerEnWarm, WhisperPrompt,
     Chars("a b c"), Chars("A b c "), Chars("a b d"), Chars(" ")}

\* how the segments of a list lie in time: one after the other, in reverse
\* order, or all at the start of the recording
Layouts == {"forward", "backward", "same"}

\* seconds a segment lasts
SegSeconds == 2

SegStart(k, n, layout) ==
    CASE layout = "forward"  -> SegSeconds * (k - 1)
      [] layout = "backward" -> SegSeconds * (n - k)
      [] layout = "same"     -> 0

Timed(texts, layout) ==
    Tuple([k \in DOMAIN texts |->
             [start |-> SegStart(k, Len(texts), layout),
              end |-> SegStart(k, Len(texts), layout) + SegSeconds,
              text |-> texts[k]]])

SegmentLists ==
    {Timed(texts, layout) :
        texts \in UNION {[1..k -> SegTexts] : k \in 0..MaxSegments},
        layout \in Layouts}

\* 0.4 of the pipeline's call, 0.5, and the default 0.7
Thresholds == {<<2, 5>>, <<1, 2>>, <<7, 10>>}

InitSeg ==
    /\ pc = "seg_call"
    /\ all_segments \in SegmentLists
    /\ similarity_threshold \in Thresholds
    /\ similar_groups = None
    /\ merged_segments = None
    /\ SimIdle
    /\ DedupIdle
    /\ PhraseIdle
    /\ PipeIdle
    /\ AppIdle
    /\ ItemIdle
    /\ ArtifactIdle
    /\ FilterIdle
    /\ RecIdle
    /\ ListenIdle
    /\ ChunkIdle

MergeSegments ==
    /\ pc = "seg_call"
    /\ similar_groups' = MergeGroups(all_segments, similarity_threshold)
    /\ merged_segments' = merge_similar_segments(all_segments, similarity_threshold)
    /\ all_segments' = SegmentsAfterMerge(all_segments, similarity_threshold)
    /\ pc' = "seg_done"
    /\ UNCHANGED similarity_threshold
    /\ UNCHANGED <<simVars, dedupVars, phraseVars, pipeVars, appVars, itemVars, artifactVars, filterVars, recVars, listenVars, chunkVars>>

NextSeg == MergeSegments

SpecSeg == InitSeg /\ [][NextSeg]_vars

-----------------------------------------------------------------------------
(* Runs of the segment merger on variants of one sentence, whose texts are  *)
(* merged into one                                                          *)

HetWeerMorgen == Chars("het weer wordt morgen")

\* similarity 3/5 + 0.2 with HetWeerMorgen
MorgenZonnig == Chars("weer wordt morgen zonnig")

\* similarity 4/6 with HetWeer and no run of three common words
HetWeerIs == Chars("het weer is morgen zonnig")

\* two spaces in a row
HetWeerIsMooi == Chars("het weer  is mooi")

VariantTexts ==
    {HetWeerMorgen, MorgenZonnig, HetWeer, HetWeerIs, HetWeerIsMooi,
     Chars("Het weer wordt morgen ")}

MaxVariants == 3

VariantLists ==
    {Timed(texts, "forward") :
        texts \in UNION {[1..k -> VariantTexts] : k \in 0..MaxVariants}}

\* the merger as the pipeline calls it, with threshold 0.4
InitVariants ==
    /\ pc = "seg_call"
    /\ all_segments \in VariantLists
    /\ similarity_threshold = <<2, 5>>
    /\ similar_groups = None
    /\ merged_segments = None
    /\ SimIdle
    /\ DedupIdle
    /\ PhraseIdle
    /\ PipeIdle
    /\ AppIdle
    /\ ItemIdle
    /\ ArtifactIdle
    /\ FilterIdle
    /\ RecIdle
    /\ ListenIdle
    /\ ChunkIdle

SpecVariants == InitVariants /\ [][NextSeg]_vars

-----------------------------------------------------------------------------
(* Inputs of the phrase merger runs *)

\* most phrases in a list handed to merge_overlapping_phrases
MaxPhrases == 3

NieuweMaatregelen == Chars("nieuwe maatregelen voor de economie")

MaatregelenVandaag == Chars("maatregelen voor de economie vandaag")

\* two phrases of six words that share a run of three inside both
SixWordsFirst == Chars("p q b c d y")

SixWordsSecond == Chars("x b c d w v")

\* three phrases of ten words that share a run of four inside each
TenWordsFirst == Chars("p q r s t e f g h y")

TenWordsSecond == Chars("x a b e f g h w v z")

TenWordsThird == Chars("k e f g h l m n o i")

PhrasePool ==
    {NieuweMaatregelen, MaatregelenVandaag,
     Chars("x b c y"), Chars("z b c w v u"), Chars("b c d"),
     Chars("de het"), Chars("zon schijnt"),
     SixWordsFirst, SixWordsSecond,
     TenWordsFirst, TenWordsSecond, TenWordsThird}

PhraseLists == UNION {[1..k -> PhrasePool] : k \in 0..MaxPhrases}

InitPhrase ==
    /\ pc = "phrase_call"
    /\ phrases \in PhraseLists
    /\ merged_phrases = None
    /\ remaining_phrases = None
    /\ SimIdle
    /\ DedupIdle
    /\ SegIdle
    /\ PipeIdle
    /\ AppIdle
    /\ ItemIdle
    /\ ArtifactIdle
    /\ FilterIdle
    /\ RecIdle
    /\ ListenIdle
    /\ ChunkIdle

MergePhrases ==
    /\ pc = "phrase_call"
    /\ merged_phrases' = merge_overlapping_phrases(phrases)
    /\ pc' = "phrase_merged"
    /\ UNCHANGED <<phrases, remaining_phrases>>
    /\ UNCHANGED <<simVars, dedupVars, segVars, pipeVars, appVars, itemVars, artifactVars, filterVars, recVars, listenVars, chunkVars>>

RemoveSubphrases ==
    /\ pc = "phrase_merged"
    /\ remaining_phrases' = remove_true_subphrases(merged_phrases)
    /\ pc' = "phrase_done"
    /\ UNCHANGED <<phrases, merged_phrases>>
    /\ UNCHANGED <<simVars, dedupVars, segVars, pipeVars, appVars, itemVars, artifactVars, filterVars, recVars, listenVars, chunkVars>>

NextPhrase == MergePhrases \/ RemoveSubphrases

SpecPhrase == InitPhrase /\ [][NextPhrase]_vars

-----------------------------------------------------------------------------
(* Runs of the recording pipeline, from the transcribed segments to the      *)
(* keypoints written out                                                     *)

\* most segments in a list of short segments handed to the pipeline
MaxPipeSegments == 2

FocusLine == Chars("Focus op spraak en gesprekken.")

ZonZinnen == Chars("De zon schijnt. De zon schijnt fel! Schijnt de zon morgen?")

PipeTexts == {FocusLine, HetWeer, HetWeerEnWarm, ZonZinnen, Chars(" ")}

\* a news broadcast of 52 words in five segments
Broadcast ==
    <<Chars("Het kabinet neemt vandaag nieuwe maatregelen tegen de stijgende prijzen."),
      Chars("Dit is een van die grote protesten in Den Haag."),
      Chars("Na een dag staken en dagen onderhandelen zijn er geen dagen meer over."),
      Chars("De politie onderzoekt een inbraak bij een juwelier in Rotterdam."),
      Chars("Morgen wordt het zonnig met temperaturen rond twintig graden.")>>

PipeSegmentLists ==
    {Timed(texts, "forward") :
        texts \in UNION {[1..k -> PipeTexts] : k \in 0..MaxPipeSegments}
                    \cup {<<WhisperPrompt>>, Broadcast}}

\* extract_keywords results are (phrase, score) with the score in hundredths
Scored(texts, score) ==
    Tuple([i \in DOMAIN texts |-> [phrase |-> Chars(texts[i]), score |-> score]])

BroadcastWords ==
    Scored(<<"kabinet", "maatregelen", "prijzen", "protesten", "haag", "staken",
             "onderhandelen", "politie", "inbraak", "juwelier", "rotterdam",
             "zonnig">>, 50)

BroadcastPhrases ==
    Scored(<<"kabinet neemt", "nieuwe maatregelen", "stijgende prijzen",
             "grote protesten", "den haag", "politie onderzoekt", "inbraak bij",
             "rond twintig">>, 50)

\* what KeyBERT may hand back for the broadcast: n-grams of its words
KeyBERTResults ==
    {[phrases |-> BroadcastPhrases, medium |-> <<>>, words |-> BroadcastWords],
     [phrases |-> Scored(<<"een van die">>, 90) \o BroadcastPhrases,
      medium |-> <<>>, words |-> BroadcastWords],
     [phrases |-> BroadcastPhrases \o Scored(<<"een dag", "en dagen", "geen dagen">>, 50),
      medium |-> <<>>, words |-> BroadcastWords],
     [phrases |-> BroadcastPhrases, medium |-> Take(BroadcastPhrases, 3),
      words |-> BroadcastWords],
     [phrases |-> Take(BroadcastPhrases, 7), medium |-> <<>>,
      words |-> BroadcastWords]}

\* the stages of a run, in their order
Stages == <<"Segment Merger", "Artifact Filter", "Candidate Adapter",
            "Stopword Filter", "Phrase Merger", "Deduplicator">>

StageNumber(stage) == CHOOSE n \in DOMAIN Stages : Stages[n] = stage

\* the KeyBERT branch takes the phrases out of the (phrase, score) pairs,
\* filters them with filter_phrases_robust, merges the overlapping ones and
\* removes the subphrases
KeyBERTStages == <<"Candidate Adapter", "Stopword Filter", "Phrase Merger">>

\* the fallback resets the keypoints, makes words and phrases from the
\* transcript, keeps those with few stopwords, merges the overlapping ones and
\* removes the subphrases
FallbackStages == <<"Candidate Adapter", "Stopword Filter", "Phrase Merger">>

\* KeyBERT is a function of the transcript: it raises for a recording if it
\* raised for it before, and else extracts what it extracted before
Extracts(extracted_before, segments, raised, found) ==
    \A before \in extracted_before :
        before.all_segments = segments =>
            /\ before.raised = raised
            /\ ~raised => before.found = found

Extracted(segments, raised, found) ==
    [all_segments |-> segments, raised |-> raised, found |-> found]

InitPipe ==
    /\ pc = "recorded"
    /\ all_segments \in PipeSegmentLists
    /\ similarity_threshold = <<2, 5>>
    /\ similar_groups = None
    /\ merged_segments = None
    /\ transcript = None
    /\ keybert_available \in BOOLEAN
    /\ keywords_phrases = None
    /\ keywords_medium = None
    /\ keywords_words = None
    /\ keypoints = None
    /\ entered = <<>>
    /\ run_number = 1
    /\ first_run = None
    /\ kw_model = {}
    /\ keypoint_times = None
    /\ SimIdle
    /\ DedupIdle
    /\ PhraseIdle
    /\ AppIdle
    /\ ItemIdle
    /\ ArtifactIdle
    /\ FilterIdle
    /\ RecIdle
    /\ ListenIdle
    /\ ChunkIdle

\* the segments are merged and joined to the transcript; a transcript without
\* text ends the run
MergeAndTranscribe ==
    /\ pc = "recorded"
    /\ merged_segments' = merge_similar_segments(all_segments, similarity_threshold)
    /\ transcript' = Transcript(merged_segments')
    /\ entered' = entered \o <<"Segment Merger", "Artifact Filter">>
    /\ UNCHANGED <<run_number, first_run, kw_model>>
    /\ pc' = IF Strip(transcript') = <<>> THEN "no_speech" ELSE "transcribed"
    /\ all_segments' = SegmentsAfterMerge(all_segments, similarity_threshold)
    /\ UNCHANGED <<similarity_threshold, similar_groups>>
    /\ UNCHANGED <<keybert_available, keywords_phrases, keywords_medium,
                   keywords_words, keypoints, keypoint_times>>
    /\ UNCHANGED <<simVars, dedupVars, phraseVars, appVars, itemVars, artifactVars, filterVars, recVars, listenVars, chunkVars>>

\* the KeyBERT branch on a transcript of 50 words and more
KeyBERT ==
    /\ pc = "transcribed"
    /\ keybert_available
    /\ Len(Split(transcript)) >= 50
    /\ \E found \in KeyBERTResults :
          /\ Extracts(kw_model, all_segments, FALSE, found)
          /\ kw_model' = kw_model \cup {Extracted(all_segments, FALSE, found)}
          /\ keywords_phrases' = found.phrases
          /\ keywords_medium' = found.medium
          /\ keywords_words' = found.words
          /\ keypoints' = KeyBERTKeypoints(transcript, found.phrases,
                                           found.medium, found.words)
    /\ keybert_available' = (keypoints' # <<>> /\ Len(keypoints') >= 20)
    /\ entered' = entered \o KeyBERTStages
    /\ UNCHANGED <<run_number, first_run>>
    /\ pc' = "extracted"
    /\ UNCHANGED <<transcript, keypoint_times>>
    /\ UNCHANGED <<simVars, dedupVars, segVars, phraseVars, appVars, itemVars, artifactVars, filterVars, recVars, listenVars, chunkVars>>

\* the transcript is too short for KeyBERT
KeyBERTTooShort ==
    /\ pc = "transcribed"
    /\ keybert_available
    /\ Len(Split(transcript)) < 50
    /\ keybert_available' = FALSE
    /\ UNCHANGED entered
    /\ UNCHANGED <<run_number, first_run, kw_model>>
    /\ pc' = "extracted"
    /\ UNCHANGED <<transcript, keywords_phrases, keywords_medium, keywords_words,
                   keypoints, keypoint_times>>
    /\ UNCHANGED <<simVars, dedupVars, segVars, phraseVars, appVars, itemVars, artifactVars, filterVars, recVars, listenVars, chunkVars>>

\* KeyBERT raises
KeyBERTFails ==
    /\ pc = "transcribed"
    /\ keybert_available
    /\ Len(Split(transcript)) >= 50
    /\ keybert_available' = FALSE
    /\ UNCHANGED entered
    /\ Extracts(kw_model, all_segments, TRUE, <<>>)
    /\ kw_model' = kw_model \cup {Extracted(all_segments, TRUE, <<>>)}
    /\ UNCHANGED <<run_number, first_run>>
    /\ pc' = "extracted"
    /\ UNCHANGED <<transcript, keywords_phrases, keywords_medium, keywords_words,
                   keypoints, keypoint_times>>
    /\ UNCHANGED <<simVars, dedupVars, segVars, phraseVars, appVars, itemVars, artifactVars, filterVars, recVars, listenVars, chunkVars>>

\* the keypoints from frequencies when KeyBERT is not available or gave too few
Fallback ==
    /\ \/ pc = "transcribed" /\ ~keybert_available
       \/ pc = "extracted" /\ ~keybert_available
       \/ pc = "extracted" /\ keybert_available /\ Len(keypoints) < 15
    /\ keypoints' = FrequencyKeypoints(transcript)
    /\ entered' = entered \o FallbackStages
    /\ UNCHANGED <<run_number, first_run, kw_model>>
    /\ pc' = "keypoints"
    /\ UNCHANGED <<transcript, keybert_available, keywords_phrases,
                   keywords_medium, keywords_words, keypoint_times>>
    /\ UNCHANGED <<simVars, dedupVars, segVars, phraseVars, appVars, itemVars, artifactVars, filterVars, recVars, listenVars, chunkVars>>

\* the starts of the segments that mention a keypoint
FindTimes ==
    /\ \/ pc = "keypoints"
       \/ pc = "extracted" /\ keybert_available /\ Len(keypoints) >= 15
    /\ keypoint_times' = FindKeypointTimes(keypoints, all_segments)
    /\ all_segments' = SegmentsAfterLookup(keypoints, all_segments)
    /\ UNCHANGED <<similarity_threshold, similar_groups, merged_segments>>
    /\ entered' = entered \o <<"Deduplicator">>
    /\ UNCHANGED <<run_number, first_run, kw_model>>
    /\ pc' = "timed"
    /\ UNCHANGED <<transcript, keybert_available, keywords_phrases,
                   keywords_medium, keywords_words, keypoints>>
    /\ UNCHANGED <<simVars, dedupVars, phraseVars, appVars, itemVars, artifactVars, filterVars, recVars, listenVars, chunkVars>>

\* the keypoints with timestamps are deduplicated and written out
DeduplicateKeypoints ==
    /\ pc = "timed"
    /\ keypoint_times' = DeduplicatedTimes(keypoint_times)
    /\ entered' = entered \o <<"Deduplicator">>
    /\ UNCHANGED <<run_number, first_run, kw_model>>
    /\ pc' = "done"
    /\ UNCHANGED <<transcript, keybert_available, keywords_phrases,
                   keywords_medium, keywords_words, keypoints>>
    /\ UNCHANGED <<simVars, dedupVars, segVars, phraseVars, appVars, itemVars, artifactVars, filterVars, recVars, listenVars, chunkVars>>

NextPipe ==
    \/ MergeAndTranscribe
    \/ KeyBERT
    \/ KeyBERTTooShort
    \/ KeyBERTFails
    \/ Fallback
    \/ FindTimes
    \/ DeduplicateKeypoints

SpecPipe == InitPipe /\ [][NextPipe]_vars

-----------------------------------------------------------------------------
(* Several runs of the pipeline in one process: a recording, another        *)
(* recording, and the first recording again                                 *)

MaxRuns == 3

\* the recordings of the second run: one too short for KeyBERT, one that is
\* only the prompt and one of silence
OtherRecordings ==
    {Timed(<<HetWeerEnWarm>>, "forward"), Timed(<<WhisperPrompt>>, "forward"),
     Timed(<<>>, "forward")}

\* the end of the first run
FinishedRun == [all_segments |-> all_segments, pc |-> pc, keypoint_times |-> keypoint_times]

\* transcribe_and_extract is called for the next recording: its locals are
\* new, the module's keybert_available is what the last run left
NextRecording ==
    /\ pc \in {"done", "no_speech"}
    /\ run_number < MaxRuns
    /\ run_number' = run_number + 1
    /\ first_run' = IF run_number = 1 THEN FinishedRun ELSE first_run
    /\ all_segments' \in IF run_number + 1 < MaxRuns THEN OtherRecordings
                         ELSE {first_run'.all_segments}
    /\ merged_segments' = None
    /\ transcript' = None
    /\ keywords_phrases' = None
    /\ keywords_medium' = None
    /\ keywords_words' = None
    /\ keypoints' = None
    /\ keypoint_times' = None
    /\ entered' = <<>>
    /\ pc' = "recorded"
    /\ UNCHANGED <<keybert_available, kw_model, similarity_threshold, similar_groups>>
    /\ UNCHANGED <<simVars, dedupVars, phraseVars, appVars, itemVars, artifactVars, filterVars, recVars, listenVars, chunkVars>>

NextProcess ==
    \/ MergeAndTranscribe
    \/ KeyBERT
    \/ KeyBERTTooShort
    \/ KeyBERTFails
    \/ Fallback
    \/ FindTimes
    \/ DeduplicateKeypoints
    \/ NextRecording

SpecProcess == InitPipe /\ [][NextProcess]_vars

-----------------------------------------------------------------------------
(* Runs of the modular application: keypoints with estimated timestamps from *)
(* a transcript, then process_keypoints                                      *)

\* text.lower().split()
FallbackWords_Cased(text) == Split(text)

FallbackWords(text) == Split(Lower(text))

\* most stopwords the fallback allows in a phrase of n words
MostStopwords(n) == IF n = 2 THEN 0 ELSE IF n = 3 THEN 1 ELSE 2

\* the n words from position i make a phrase for the fallback
IsFallbackGram(words, stopwords, i, n) ==
    /\ i + n - 1 <= Len(words)
    /\ StopwordCount(SubSeq(words, i, i + n - 1), stopwords) <= MostStopwords(n)
    /\ \A k \in i..(i + n - 1) : Len(words[k]) >= 3

\* the loop over the positions i, at each the phrases of 2, 3, 4 and 5 words:
\* place 4 * (i - 1) + (n - 1) is for the n words from i
FallbackGrams(words, stopwords) ==
    LET places == 1..(4 * (Len(words) - 1))
        at(place) == ((place - 1) \div 4) + 1
        size(place) == ((place - 1) % 4) + 2
        kept == SortedSeq({place \in places :
                    IsFallbackGram(words, stopwords, at(place), size(place))})
    IN  Tuple([k \in DOMAIN kept |->
                 Join(SubSeq(words, at(kept[k]), at(kept[k]) + size(kept[k]) - 1), SP)])

\* [phrases, words], each a list of (term, count)
extract_keypoints_fallback(text, stopwords) ==
    LET words == FallbackWords(text)
        filtered_words == KeepAt(words, {i \in DOMAIN words :
                                            words[i] \notin stopwords
                                            /\ Len(words[i]) >= 3})
    IN  [phrases |-> MostCommon(FallbackGrams(words, stopwords), 50),
         words |-> MostCommon(filtered_words, 20)]

\* a list of bare strings
Strings(texts) == Tuple([i \in DOMAIN texts |-> [str |-> texts[i]]])

\* [phrases, words], each a list of strings
extract_keypoints_with_keybert(found, stopwords) ==
    [phrases |-> Strings(filter_phrases_robust(found.phrases \o found.medium,
                                               stopwords)),
     words |-> Strings(filter_words_robust(found.words, stopwords))]

\* utils.count_phrase_occurrences
CountPhraseOccurrences(phrase, transcript_words) ==
    LET phrase_words == Split(Lower(phrase))
        transcript_lower == LowerWords(transcript_words)
    IN  IF phrase = <<>> \/ transcript_words = <<>> \/ phrase_words = <<>> THEN 0
        ELSE Cardinality({i \in 1..(Len(transcript_lower) - Len(phrase_words) + 1) :
                SubSeq(transcript_lower, i, i + Len(phrase_words) - 1) = phrase_words})

\* the place of the first occurrence in the text as a part of the duration:
\* the exact quotient
PositionTime(first_occurrence, text, duration) ==
    IF first_occurrence = -1 THEN FZero
    ELSE Frac(first_occurrence * duration, Len(text))

estimate_phrase_timestamp(phrase, text, duration) ==
    IF CountPhraseOccurrences(phrase, Split(Lower(text))) > 0
    THEN PositionTime(Find(Lower(phrase), Lower(text)), text, duration)
    ELSE FZero

estimate_word_timestamp(word, text, duration) ==
    PositionTime(Find(Lower(word), Lower(text)), text, duration)

\* the insertion-ordered dict after dict[item.phrase] = item.times for the
\* items in order: a key stays where it was first set, with its last value
DictOf(items) ==
    LET first == SortedSeq({i \in DOMAIN items :
                    \A j \in 1..(i - 1) : items[j].phrase # items[i].phrase})
    IN  Tuple([k \in DOMAIN first |->
                 [phrase |-> items[first[k]].phrase,
                  times |-> items[SetMax({j \in DOMAIN items :
                                 items[j].phrase = items[first[k]].phrase})].times]])

\* for term, _ in pairs: the pairs unpack, a bare string unpacks only when it
\* has two characters, anything else raises
Unpacks(pairs) ==
    \A i \in DOMAIN pairs : "term" \in DOMAIN pairs[i] \/ Len(pairs[i].str) = 2

UnpackedTerm(pair) == IF "term" \in DOMAIN pair THEN pair.term ELSE <<pair.str[1]>>

\* keypoint_times of extract_keypoints_with_timestamps from [phrases, words];
\* an exception leaves the empty dict
TimedKeypoints(found, text, duration) ==
    IF ~(Unpacks(found.phrases) /\ Unpacks(found.words)) THEN <<>>
    ELSE
      LET phrase_terms == Tuple([i \in DOMAIN found.phrases |->
                                   UnpackedTerm(found.phrases[i])])
          word_terms == Tuple([i \in DOMAIN found.words |->
                                 UnpackedTerm(found.words[i])])
          timed_phrases ==
              Tuple([i \in DOMAIN phrase_terms |->
                       [phrase |-> phrase_terms[i],
                        times |-> <<estimate_phrase_timestamp(phrase_terms[i],
                                                              text, duration)>>]])
          timed_words ==
              Tuple([i \in DOMAIN word_terms |->
                       [phrase |-> word_terms[i],
                        times |-> <<estimate_word_timestamp(word_terms[i],
                                                            text, duration)>>]])
      IN  DictOf(KeepAt(timed_phrases, {i \in DOMAIN timed_phrases :
                           /\ timed_phrases[i].phrase # <<>>
                           /\ HasSpace(timed_phrases[i].phrase)})
                 \o KeepAt(timed_words, {i \in DOMAIN timed_words :
                              /\ timed_words[i].phrase # <<>>
                              /\ ~HasSpace(timed_words[i].phrase)}))

\* words_with_times without the test for a space
WordsWithTimes_AnyKind(times_dict) == WithTimes(times_dict)

\* the entries without a space in the key that have timestamps
WordsWithTimes(times_dict) ==
    KeepAt(times_dict, {i \in DOMAIN times_dict :
                           /\ ~HasSpace(times_dict[i].phrase)
                           /\ times_dict[i].times # <<>>})

\* the entries with a space in the key that have timestamps
PhrasesWithTimes(times_dict) ==
    KeepAt(times_dict, {i \in DOMAIN times_dict :
                           /\ HasSpace(times_dict[i].phrase)
                           /\ times_dict[i].times # <<>>})

DeduplicatedPhrases(phrases_to_deduplicate) ==
    IF phrases_to_deduplicate # <<>>
    THEN deduplicate_phrases(phrases_to_deduplicate)
    ELSE <<>>

ResultsOf(words_with_times, deduplicated_phrases) ==
    [total_keypoints |-> Len(words_with_times) + Len(deduplicated_phrases),
     word_count |-> Len(words_with_times),
     phrase_count |-> Len(deduplicated_phrases),
     keypoint_times |-> DictOf(words_with_times \o deduplicated_phrases),
     words |-> Texts(words_with_times),
     phrases |-> Texts(deduplicated_phrases)]

\* the results dictionary of process_keypoints
process_keypoints(times_dict) ==
    ResultsOf(WordsWithTimes(times_dict),
              DeduplicatedPhrases(PhrasesWithTimes(times_dict)))

\* t.replace(old, new): the occurrences from the left that do not overlap
RECURSIVE ReplaceFrom(_, _, _, _)
ReplaceAt(t, old, new, i, at) ==
    IF at = {} THEN SubSeq(t, i, Len(t))
    ELSE SubSeq(t, i, SetMin(at) - 1) \o new
            \o ReplaceFrom(t, old, new, SetMin(at) + Len(old))

ReplaceFrom(t, old, new, i) == ReplaceAt(t, old, new, i, OccursFrom(old, t, i))

Replace(t, old, new) == ReplaceFrom(t, old, new, 1)

\* the dict replacements of enhance_transcript_quality, in its order
transcript_replacements ==
    <<<<Chars(" uh "), SP>>, <<Chars(" um "), SP>>, <<Chars(" er "), SP>>,
      <<Chars(" ah "), SP>>, <<Chars("  "), SP>>, <<Chars(" ,"), Chars(",")>>,
      <<Chars(" ."), Chars(".")>>, <<Chars(" !"), Chars("!")>>,
      <<Chars(" ?"), Chars("?")>>>>

RECURSIVE ReplaceEach(_, _, _)
\* the loop over the replacements from the k-th on
ReplaceEach(t, replacements, k) ==
    IF Computed(t) /\ k > Len(replacements) THEN t
    ELSE ReplaceEach(Replace(t, replacements[k][1], replacements[k][2]),
                     replacements, k + 1)

\* t.split(sep) for a separator sep
RECURSIVE SplitOnFrom(_, _, _)
SplitOnAt(t, sep, i, at) ==
    IF at = {} THEN <<SubSeq(t, i, Len(t))>>
    ELSE <<SubSeq(t, i, SetMin(at) - 1)>> \o SplitOnFrom(t, sep, SetMin(at) + Len(sep))

SplitOnFrom(t, sep, i) == SplitOnAt(t, sep, i, OccursFrom(sep, t, i))

SplitOn(t, sep) == SplitOnFrom(t, sep, 1)

UpperChar(c) == MappedChar(c, LowerLetters, UpperLetters)

\* sentence[0].upper() + sentence[1:]
Capitalized(sentence) ==
    IF sentence = <<>> THEN sentence
    ELSE <<UpperChar(sentence[1])>> \o SubSeq(sentence, 2, Len(sentence))

\* the sentences that are not empty once stripped, capitalized
CapitalizedSentences(sentences) ==
    KeepAt(Tuple([i \in DOMAIN sentences |-> Capitalized(Strip(sentences[i]))]),
           {i \in DOMAIN sentences : Strip(sentences[i]) # <<>>})

enhance_transcript_quality(t) ==
    Join(CapitalizedSentences(
             SplitOn(ReplaceEach(Join(Split(t), SP), transcript_replacements, 1),
                     Chars(". "))),
         Chars(". "))

\* what extract_keypoints_with_timestamps can return for a text, KeyBERT
\* giving any of its results or raising
PossibleKeypointTimes(text, duration, available) ==
    IF available /\ Len(Split(text)) >= 50
    THEN {TimedKeypoints(extract_keypoints_with_keybert(found, DUTCH_STOPWORDS),
                         text, duration) : found \in KeyBERTResults}
            \cup {TimedKeypoints([phrases |-> <<>>, words |-> <<>>], text, duration)}
    ELSE {TimedKeypoints(extract_keypoints_fallback(text, DUTCH_STOPWORDS),
                         text, duration)}

\* a value extract_keypoints returns: None, or the dict keypoint_times
ReturnedNone == [none |-> TRUE, keypoint_times |-> <<>>]

Returned(times_dict) == [none |-> FALSE, keypoint_times |-> times_dict]

\* return keypoints if keypoints else None
ExtractedFrom(times_dict) ==
    IF times_dict # <<>> THEN Returned(times_dict) ELSE ReturnedNone

\* what extract_keypoints can return for a transcript
extract_keypoints(transcript_text, available) ==
    IF transcript_text = <<>> \/ Strip(transcript_text) = <<>> THEN {ReturnedNone}
    ELSE {ExtractedFrom(times_dict) :
             times_dict \in PossibleKeypointTimes(
                                enhance_transcript_quality(transcript_text),
                                30 * 60, available)}

\* most sentences in a transcript handed to the application's extraction
MaxSentences == 2

AppSentences ==
    {ZonZinnen, HetWeer, Chars("Zon en zee."), Chars("Het Weer wordt zonnig"),
     Chars("de zon  schijnt"), Chars("het is nu al warm"), Chars("de het een")}

AppTexts ==
    {Join(sentences, SP) :
        sentences \in UNION {[1..k -> AppSentences] : k \in 1..MaxSentences}}
      \cup {Join(Broadcast, SP), <<>>}

\* a recording of a minute, and the half hour extract_keypoints assumes
AudioDurations == {60, 1800}

InitApp ==
    /\ pc = "app_transcribed"
    /\ app_text \in AppTexts
    /\ audio_duration \in AudioDurations
    /\ app_keybert_available \in BOOLEAN
    /\ app_keypoint_times = None
    /\ results = None
    /\ extracted = None
    /\ SimIdle
    /\ DedupIdle
    /\ SegIdle
    /\ PhraseIdle
    /\ PipeIdle
    /\ ItemIdle
    /\ ArtifactIdle
    /\ FilterIdle
    /\ RecIdle
    /\ ListenIdle
    /\ ChunkIdle

\* extract_keypoints_with_timestamps on its fallback branch
ExtractFallback ==
    /\ pc = "app_transcribed"
    /\ app_text # <<>>
    /\ ~(app_keybert_available /\ Len(Split(app_text)) >= 50)
    /\ app_keypoint_times' =
           TimedKeypoints(extract_keypoints_fallback(app_text, DUTCH_STOPWORDS),
                          app_text, audio_duration)
    /\ pc' = "app_extracted"
    /\ UNCHANGED <<app_text, audio_duration, app_keybert_available, results,
                   extracted>>
    /\ UNCHANGED <<simVars, dedupVars, segVars, phraseVars, pipeVars, itemVars, artifactVars, filterVars, recVars, listenVars, chunkVars>>

\* extract_keypoints_with_timestamps on its KeyBERT branch
ExtractKeyBERT ==
    /\ pc = "app_transcribed"
    /\ app_keybert_available /\ Len(Split(app_text)) >= 50
    /\ \E found \in KeyBERTResults :
          app_keypoint_times' =
              TimedKeypoints(extract_keypoints_with_keybert(found, DUTCH_STOPWORDS),
                             app_text, audio_duration)
    /\ pc' = "app_extracted"
    /\ UNCHANGED <<app_text, audio_duration, app_keybert_available, results,
                   extracted>>
    /\ UNCHANGED <<simVars, dedupVars, segVars, phraseVars, pipeVars, itemVars, artifactVars, filterVars, recVars, listenVars, chunkVars>>

\* KeyBERT raises inside extract_keypoints_with_keybert: no phrases, no words
ExtractKeyBERTFails ==
    /\ pc = "app_transcribed"
    /\ app_keybert_available /\ Len(Split(app_text)) >= 50
    /\ app_keypoint_times' = TimedKeypoints([phrases |-> <<>>, words |-> <<>>],
                                            app_text, audio_duration)
    /\ pc' = "app_extracted"
    /\ UNCHANGED <<app_text, audio_duration, app_keybert_available, results,
                   extracted>>
    /\ UNCHANGED <<simVars, dedupVars, segVars, phraseVars, pipeVars, itemVars, artifactVars, filterVars, recVars, listenVars, chunkVars>>

ProcessKeypoints ==
    /\ pc = "app_extracted"
    /\ results' = process_keypoints(app_keypoint_times)
    /\ pc' = "app_done"
    /\ UNCHANGED <<app_text, audio_duration, app_keybert_available,
                   app_keypoint_times, extracted>>
    /\ UNCHANGED <<simVars, dedupVars, segVars, phraseVars, pipeVars, itemVars, artifactVars, filterVars, recVars, listenVars, chunkVars>>

\* extract_keypoints called with the transcript
ExtractKeypoints ==
    /\ pc = "app_transcribed"
    /\ extracted' \in extract_keypoints(app_text, app_keybert_available)
    /\ pc' = "extract_returned"
    /\ UNCHANGED <<app_text, audio_duration, app_keybert_available,
                   app_keypoint_times, results>>
    /\ UNCHANGED <<simVars, dedupVars, segVars, phraseVars, pipeVars, itemVars, artifactVars, filterVars, recVars, listenVars, chunkVars>>

NextApp ==
    \/ ExtractKeypoints
    \/ ExtractFallback
    \/ ExtractKeyBERT
    \/ ExtractKeyBERTFails
    \/ ProcessKeypoints

SpecApp == InitApp /\ [][NextApp]_vars

-----------------------------------------------------------------------------
(* Runs of a stage on a list with one malformed item: a segment without a   *)
(* start, or whose text is None or empty, a keypoint whose text is None     *)

\* what a call does: it raises, or it returns a value
Raised == [raised |-> TRUE, value |-> <<>>]

Result(value) == [raised |-> FALSE, value |-> value]

\* a text that is None
NoText == <<None>>

HasText(seg) == "text" \in DOMAIN seg

\* the segments that are a dict with a key 'text'
SegmentsWithText(segments) ==
    KeepAt(segments, {i \in DOMAIN segments : HasText(segments[i])})

\* min(seg['start'] ...) and max(seg['end'] ...) raise for a group of several
\* segments of which one has no start
GroupsOutcome(groups) ==
    IF \E k \in DOMAIN groups :
          /\ Len(groups[k]) > 1
          /\ \E n \in DOMAIN groups[k] :
                 ~({"start", "end"} \subseteq DOMAIN groups[k][n])
    THEN Raised
    ELSE Result(Tuple([k \in DOMAIN groups |-> MergedSegment(groups[k])]))

\* merge_similar_segments on segments of which some miss a key or have the
\* text None: seg['text'].strip() raises for None
MergeOutcome(segments, threshold) ==
    IF Len(segments) <= 1 THEN Result(segments)
    ELSE IF \E i \in DOMAIN segments :
                HasText(segments[i]) /\ segments[i].text = NoText
    THEN Raised
    ELSE GroupsOutcome(SimilarGroups(ValidSegments(SegmentsWithText(segments)),
                                     1, {}, threshold))

\* deduplicate_phrases on keypoints of which some have the text None:
\* phrase.lower() raises for None
DedupOutcome(items) ==
    IF items = <<>> THEN Result(items)
    ELSE IF \E i \in DOMAIN items : items[i].phrase = NoText THEN Raised
    ELSE Result(deduplicate_phrases(items))

\* seq with item at place i
InsertAt(seq, i, item) == SubSeq(seq, 1, i - 1) \o <<item>> \o SubSeq(seq, i, Len(seq))

\* most well-formed items in a list with a malformed one
MaxGoodItems == 2

GoodTexts == {HetWeer, HetWeerEnWarm, Chars("a b c"), Chars("a b d")}

\* the malformed segments: no start, text None, text empty, text blank
MalformedSegments ==
    {[end |-> SegSeconds, text |-> HetWeer],
     [start |-> 0, end |-> SegSeconds, text |-> NoText],
     [start |-> 0, end |-> SegSeconds, text |-> <<>>],
     [start |-> 0, end |-> SegSeconds, text |-> Chars(" ")]}

MalformedKeypoints == {[phrase |-> NoText, times |-> <<5>>]}

GoodSegmentLists ==
    {Timed(texts, "forward") :
        texts \in UNION {[1..k -> GoodTexts] : k \in 0..MaxGoodItems}}

GoodKeypointLists ==
    {l \in KeypointLists : Len(l) <= MaxGoodItems}

InitItems ==
    /\ \/ /\ pc = "segments_given"
          /\ \E good \in GoodSegmentLists, bad \in MalformedSegments :
                \E i \in 1..(Len(good) + 1) :
                   given = InsertAt(good, i, bad) /\ bad_at = i
       \/ /\ pc = "keypoints_given"
          /\ \E good \in GoodKeypointLists, bad \in MalformedKeypoints :
                \E i \in 1..(Len(good) + 1) :
                   given = InsertAt(good, i, bad) /\ bad_at = i
    /\ outcome = None
    /\ outcome_without = None
    /\ SimIdle
    /\ DedupIdle
    /\ SegIdle
    /\ PhraseIdle
    /\ PipeIdle
    /\ AppIdle
    /\ ArtifactIdle
    /\ FilterIdle
    /\ RecIdle
    /\ ListenIdle
    /\ ChunkIdle

\* merge_similar_segments with its default threshold 0.7, on the list and on
\* the list without the malformed segment
MergeGiven ==
    /\ pc = "segments_given"
    /\ outcome' = MergeOutcome(given, <<7, 10>>)
    /\ outcome_without' = MergeOutcome(RemoveAt(given, bad_at), <<7, 10>>)
    /\ pc' = "segments_merged"
    /\ UNCHANGED <<given, bad_at>>
    /\ UNCHANGED <<simVars, dedupVars, segVars, phraseVars, pipeVars, appVars, artifactVars, filterVars, recVars, listenVars, chunkVars>>

\* deduplicate_phrases on the list and on the list without the malformed keypoint
DeduplicateGiven ==
    /\ pc = "keypoints_given"
    /\ outcome' = DedupOutcome(given)
    /\ outcome_without' = DedupOutcome(RemoveAt(given, bad_at))
    /\ pc' = "keypoints_deduplicated"
    /\ UNCHANGED <<given, bad_at>>
    /\ UNCHANGED <<simVars, dedupVars, segVars, phraseVars, pipeVars, appVars, artifactVars, filterVars, recVars, listenVars, chunkVars>>

NextItems ==
    \/ MergeGiven
    \/ DeduplicateGiven

SpecItems == InitItems /\ [][NextItems]_vars

-----------------------------------------------------------------------------
(* Calls of is_whisper_artifact on texts made of up to three parts          *)

Alphabet40 == Chars("abcdefghijklmnopqrstuvwxyz abcdefghijklm ")

TextParts ==
    {HetWeer \o SP, Chars("radio Radio "), Chars("overgeslagen "),
     Chars("de Api is er "), Chars("een twee drie vier "), Alphabet40}

MaxParts == 3

RECURSIVE Concatenated(_)
Concatenated(parts) ==
    IF parts = <<>> THEN <<>> ELSE Head(parts) \o Concatenated(Tail(parts))

CheckedTexts ==
    {Concatenated(parts) :
        parts \in UNION {[1..k -> TextParts] : k \in 0..MaxParts}}

InitArtifact ==
    /\ pc = "artifact_call"
    /\ checked_text \in CheckedTexts
    /\ is_artifact = None
    /\ utils_is_artifact = None
    /\ SimIdle
    /\ DedupIdle
    /\ SegIdle
    /\ PhraseIdle
    /\ PipeIdle
    /\ AppIdle
    /\ ItemIdle
    /\ FilterIdle
    /\ RecIdle
    /\ ListenIdle
    /\ ChunkIdle

CheckArtifact ==
    /\ pc = "artifact_call"
    /\ is_artifact' = is_whisper_artifact(checked_text)
    /\ utils_is_artifact' = utils_is_whisper_artifact(checked_text)
    /\ pc' = "artifact_checked"
    /\ UNCHANGED checked_text
    /\ UNCHANGED <<simVars, dedupVars, segVars, phraseVars, pipeVars, appVars, itemVars, filterVars, recVars, listenVars, chunkVars>>

NextArtifact == CheckArtifact

SpecArtifact == InitArtifact /\ [][NextArtifact]_vars

-----------------------------------------------------------------------------
(* Calls of filter_words_robust on lists of up to MaxWordItems candidates    *)
(* with the stopword sets its callers hand over                             *)

\* most candidates in a list handed to filter_words_robust
MaxWordItems == 3

\* words of one, two and more characters, stopwords of both sets and of the
\* larger set only, a capitalised stopword, an empty text, a phrase and a
\* bare string
WordItemPool ==
    {[phrase |-> Chars("x"), score |-> 90],
     [phrase |-> Chars("eu"), score |-> 80],
     [phrase |-> Chars("economie"), score |-> 70],
     [phrase |-> Chars("de"), score |-> 60],
     [phrase |-> Chars("wel"), score |-> 50],
     [phrase |-> Chars("De"), score |-> 40],
     [phrase |-> <<>>, score |-> 30],
     [phrase |-> Chars("de wereld"), score |-> 20],
     [str |-> Chars("economie")]}

WordItemLists == UNION {[1..k -> WordItemPool] : k \in 0..MaxWordItems}

InitWords ==
    /\ pc = "words_call"
    /\ filter_input \in WordItemLists
    /\ filter_stopwords \in {DUTCH_STOPWORDS, basic_stopwords}
    /\ filter_output = None
    /\ SimIdle
    /\ DedupIdle
    /\ SegIdle
    /\ PhraseIdle
    /\ PipeIdle
    /\ AppIdle
    /\ ItemIdle
    /\ ArtifactIdle
    /\ RecIdle
    /\ ListenIdle
    /\ ChunkIdle

FilterWords ==
    /\ pc = "words_call"
    /\ filter_output' = filter_words_robust(filter_input, filter_stopwords)
    /\ pc' = "words_filtered"
    /\ UNCHANGED <<filter_input, filter_stopwords>>
    /\ UNCHANGED <<simVars, dedupVars, segVars, phraseVars, pipeVars, appVars, itemVars, artifactVars, recVars, listenVars, chunkVars>>

NextWords == FilterWords

SpecWords == InitWords /\ [][NextWords]_vars

-----------------------------------------------------------------------------
(* Calls of filter_phrases_robust on lists of 10 to 28 candidates: up to     *)
(* MaxTwoWord phrases of two words before or after ten phrases of three     *)
(* words and some of six other phrases                                      *)

\* most 2-word phrases in a list handed to filter_phrases_robust
MaxTwoWord == 12

TwoWordPhrases ==
    <<Chars("zon schijnt"), Chars("regen valt"), Chars("wind waait"),
      Chars("nieuws vandaag"), Chars("minister spreekt"), Chars("kabinet valt"),
      Chars("trein rijdt"), Chars("markt stijgt"), Chars("prijzen dalen"),
      Chars("school sluit"), Chars("dokter helpt"), Chars("water stijgt")>>

ThreeWordPhrases ==
    <<Chars("het weer morgen"), Chars("regen in utrecht"),
      Chars("kabinet neemt besluit"), Chars("trein naar amsterdam"),
      Chars("markt sluit hoger"), Chars("prijzen stijgen snel"),
      Chars("school blijft dicht"), Chars("dokter geeft advies"),
      Chars("boeren voeren actie"), Chars("water staat hoog")>>

NieuweMaatregelenVoor == Chars("nieuwe maatregelen voor")

\* a phrase of three words inside one of five, two phrases that the merger
\* merges, a phrase of stopwords and a phrase of four words
OtherPhrases ==
    <<NieuweMaatregelenVoor, NieuweMaatregelen, TenWordsFirst, TenWordsSecond,
      Chars("de het een"), Chars("het weer is mooi")>>

\* the phrases as (phrase, score) tuples
ScoredPhrases(texts) ==
    Tuple([i \in DOMAIN texts |-> [phrase |-> texts[i], score |-> 50]])

PhraseItemLists ==
    {ScoredPhrases(IF two_first
                   THEN SubSeq(TwoWordPhrases, 1, k) \o ThreeWordPhrases
                           \o KeepAt(OtherPhrases, others)
                   ELSE ThreeWordPhrases \o KeepAt(OtherPhrases, others)
                           \o SubSeq(TwoWordPhrases, 1, k)) :
        k \in {0, 8, MaxTwoWord}, others \in SUBSET DOMAIN OtherPhrases,
        two_first \in BOOLEAN}

InitBalance ==
    /\ pc = "phrases_call"
    /\ filter_input \in PhraseItemLists
    /\ filter_stopwords \in {DUTCH_STOPWORDS, basic_stopwords}
    /\ filter_output = None
    /\ SimIdle
    /\ DedupIdle
    /\ SegIdle
    /\ PhraseIdle
    /\ PipeIdle
    /\ AppIdle
    /\ ItemIdle
    /\ ArtifactIdle
    /\ RecIdle
    /\ ListenIdle
    /\ ChunkIdle

FilterPhrases ==
    /\ pc = "phrases_call"
    /\ filter_output' = filter_phrases_robust(filter_input, filter_stopwords)
    /\ pc' = "phrases_filtered"
    /\ UNCHANGED <<filter_input, filter_stopwords>>
    /\ UNCHANGED <<simVars, dedupVars, segVars, phraseVars, pipeVars, appVars, itemVars, artifactVars, recVars, listenVars, chunkVars>>

NextBalance == FilterPhrases

SpecBalance == InitBalance /\ [][NextBalance]_vars

-----------------------------------------------------------------------------
(* The recorder of the application: clicks on Start and Stop handled by the   *)
(* main thread, the recorder threads with their ffmpeg processes, and the    *)
(* transcription runs, which replace subprocess.Popen while they run         *)

\* most recordings
MaxRecordings == 2

\* most batches of recent recordings
MaxBatches == 1

\* subprocess.Popen as the module defines it
OriginalPopen == 0

InitRecorder ==
    /\ pc = "recorder"
    /\ is_recording = FALSE
    /\ stop_event = FALSE
    /\ recording_thread = 0
    /\ recorders = <<>>
    /\ main_thread = "mainloop"
    /\ transcriptions = <<>>
    /\ Popen = OriginalPopen
    /\ last_click = "none"
    /\ click_parity = 0
    /\ ignored_clicks = {}
    /\ SimIdle
    /\ DedupIdle
    /\ SegIdle
    /\ PhraseIdle
    /\ PipeIdle
    /\ AppIdle
    /\ ItemIdle
    /\ ArtifactIdle
    /\ FilterIdle
    /\ ListenIdle
    /\ ChunkIdle

\* a click the handler ignores
IgnoredClick(kind) ==
    /\ ignored_clicks' = ignored_clicks \cup {kind}
    /\ UNCHANGED <<is_recording, stop_event, recording_thread, recorders,
                   main_thread, transcriptions, Popen>>

\* start_recording
StartRecording ==
    /\ pc = "recorder" /\ main_thread = "mainloop"
    /\ last_click' = "start"
    /\ click_parity' = 1 - click_parity
    /\ IF is_recording THEN IgnoredClick("start")
       ELSE /\ Len(recorders) < MaxRecordings
            /\ stop_event' = FALSE
            /\ recorders' = Append(recorders, [thread |-> "started", process |-> "none"])
            /\ recording_thread' = Len(recorders) + 1
            /\ is_recording' = TRUE
            /\ UNCHANGED <<main_thread, transcriptions, Popen, ignored_clicks>>
    /\ UNCHANGED pc
    /\ UNCHANGED <<simVars, dedupVars, segVars, phraseVars, pipeVars, appVars, itemVars, artifactVars, filterVars, listenVars, chunkVars>>

\* stop_recording up to recording_thread.join()
StopRecording ==
    /\ pc = "recorder" /\ main_thread = "mainloop"
    /\ last_click' = "stop"
    /\ click_parity' = 1 - click_parity
    /\ IF ~is_recording THEN IgnoredClick("stop")
       ELSE /\ stop_event' = TRUE
            /\ main_thread' = "joining"
            /\ UNCHANGED <<is_recording, recording_thread, recorders,
                           transcriptions, Popen, ignored_clicks>>
    /\ UNCHANGED pc
    /\ UNCHANGED <<simVars, dedupVars, segVars, phraseVars, pipeVars, appVars, itemVars, artifactVars, filterVars, listenVars, chunkVars>>

\* join() of the recorder thread r returns without waiting
Joined_NoWait(r) == TRUE

\* join() of the recorder thread r returns
Joined(r) == recorders[r].thread = "dead"

\* a transcription run of a recording, 0 for a file of a batch
StartedRun(audio) ==
    [audio_path |-> audio, at |-> "started", original_popen |-> OriginalPopen]

\* stop_recording after the join: the transcription thread is started
StopRecordingJoined ==
    /\ pc = "recorder" /\ main_thread = "joining"
    /\ recording_thread # 0 => Joined(recording_thread)
    /\ is_recording' = FALSE
    /\ transcriptions' = Append(transcriptions, StartedRun(recording_thread))
    /\ main_thread' = "mainloop"
    /\ UNCHANGED <<stop_event, recording_thread, recorders, Popen, last_click,
                   click_parity, ignored_clicks>>
    /\ UNCHANGED pc
    /\ UNCHANGED <<simVars, dedupVars, segVars, phraseVars, pipeVars, appVars, itemVars, artifactVars, filterVars, listenVars, chunkVars>>

\* start_transcription of transcribe_recent_recordings: the thread of
\* process_files runs transcribe_and_extract_batch on a file
StartBatch ==
    /\ pc = "recorder" /\ main_thread = "mainloop"
    /\ Cardinality({t \in DOMAIN transcriptions :
                       transcriptions[t].audio_path = 0}) < MaxBatches
    /\ transcriptions' = Append(transcriptions, StartedRun(0))
    /\ UNCHANGED <<is_recording, stop_event, recording_thread, recorders,
                   main_thread, Popen, last_click, click_parity, ignored_clicks>>
    /\ UNCHANGED pc
    /\ UNCHANGED <<simVars, dedupVars, segVars, phraseVars, pipeVars, appVars, itemVars, artifactVars, filterVars, listenVars, chunkVars>>

\* record_stream up to its loop: Popen starts ffmpeg or raises
RecorderStarts ==
    /\ pc = "recorder"
    /\ \E r \in DOMAIN recorders :
          /\ recorders[r].thread = "started"
          /\ \E started \in BOOLEAN :
                recorders' = [recorders EXCEPT ![r] =
                                 IF started
                                 THEN [thread |-> "waiting", process |-> "running"]
                                 ELSE [thread |-> "dead", process |-> "none"]]
    /\ UNCHANGED <<is_recording, stop_event, recording_thread, main_thread,
                   transcriptions, Popen, last_click, click_parity,
                   ignored_clicks>>
    /\ UNCHANGED pc
    /\ UNCHANGED <<simVars, dedupVars, segVars, phraseVars, pipeVars, appVars, itemVars, artifactVars, filterVars, listenVars, chunkVars>>

\* ffmpeg ends by itself while its thread waits for the event
ProcessEnds ==
    /\ pc = "recorder"
    /\ \E r \in DOMAIN recorders :
          /\ recorders[r].process = "running"
          /\ recorders' = [recorders EXCEPT ![r].process = "exited"]
    /\ UNCHANGED <<is_recording, stop_event, recording_thread, main_thread,
                   transcriptions, Popen, last_click, click_parity,
                   ignored_clicks>>
    /\ UNCHANGED pc
    /\ UNCHANGED <<simVars, dedupVars, segVars, phraseVars, pipeVars, appVars, itemVars, artifactVars, filterVars, listenVars, chunkVars>>

\* record_stream after its loop: terminate(), wait(timeout=5), and kill()
\* when the wait timed out
RecorderStops ==
    /\ pc = "recorder"
    /\ stop_event
    /\ \E r \in DOMAIN recorders :
          /\ recorders[r].thread = "waiting"
          /\ \E in_time \in BOOLEAN :
                recorders' = [recorders EXCEPT ![r] =
                                 [thread |-> "dead",
                                  process |-> IF recorders[r].process = "exited"
                                              THEN "exited"
                                              ELSE IF in_time THEN "terminated"
                                              ELSE "killed"]]
    /\ UNCHANGED <<is_recording, stop_event, recording_thread, main_thread,
                   transcriptions, Popen, last_click, click_parity,
                   ignored_clicks>>
    /\ UNCHANGED pc
    /\ UNCHANGED <<simVars, dedupVars, segVars, phraseVars, pipeVars, appVars, itemVars, artifactVars, filterVars, listenVars, chunkVars>>

\* transcribe_and_extract: original_popen = subprocess.Popen
SavePopen ==
    /\ pc = "recorder"
    /\ \E t \in DOMAIN transcriptions :
          /\ transcriptions[t].at = "started"
          /\ transcriptions' = [transcriptions EXCEPT ![t].at = "saved",
                                                       ![t].original_popen = Popen]
    /\ UNCHANGED <<is_recording, stop_event, recording_thread, recorders,
                   main_thread, Popen, last_click, click_parity, ignored_clicks>>
    /\ UNCHANGED pc
    /\ UNCHANGED <<simVars, dedupVars, segVars, phraseVars, pipeVars, appVars, itemVars, artifactVars, filterVars, listenVars, chunkVars>>

\* subprocess.Popen = silent_popen
ReplacePopen ==
    /\ pc = "recorder"
    /\ \E t \in DOMAIN transcriptions :
          /\ transcriptions[t].at = "saved"
          /\ transcriptions' = [transcriptions EXCEPT ![t].at = "transcribing"]
          /\ Popen' = t
    /\ UNCHANGED <<is_recording, stop_event, recording_thread, recorders,
                   main_thread, last_click, click_parity, ignored_clicks>>
    /\ UNCHANGED pc
    /\ UNCHANGED <<simVars, dedupVars, segVars, phraseVars, pipeVars, appVars, itemVars, artifactVars, filterVars, listenVars, chunkVars>>

\* finally: subprocess.Popen = original_popen
RestorePopen ==
    /\ pc = "recorder"
    /\ \E t \in DOMAIN transcriptions :
          /\ transcriptions[t].at = "transcribing"
          /\ transcriptions' = [transcriptions EXCEPT ![t].at = "finished"]
          /\ Popen' = transcriptions[t].original_popen
    /\ UNCHANGED <<is_recording, stop_event, recording_thread, recorders,
                   main_thread, last_click, click_parity, ignored_clicks>>
    /\ UNCHANGED pc
    /\ UNCHANGED <<simVars, dedupVars, segVars, phraseVars, pipeVars, appVars, itemVars, artifactVars, filterVars, listenVars, chunkVars>>

NextRecorder ==
    \/ StartRecording
    \/ StopRecording
    \/ StopRecordingJoined
    \/ StartBatch
    \/ RecorderStarts
    \/ ProcessEnds
    \/ RecorderStops
    \/ SavePopen
    \/ ReplacePopen
    \/ RestorePopen

SpecRecorder == InitRecorder /\ [][NextRecorder]_vars

-----------------------------------------------------------------------------
(* Live listening: clicks on Listen handled by the main thread, the listener *)
(* threads with their ffplay processes, and the resets of is_listening that  *)
(* the threads defer to the main loop                                       *)

\* most listener threads
MaxListens == 3

InitListen ==
    /\ pc = "listen"
    /\ is_listening = FALSE
    /\ listen_process = 0
    /\ listeners = <<>>
    /\ pending_resets = 0
    /\ SimIdle
    /\ DedupIdle
    /\ SegIdle
    /\ PhraseIdle
    /\ PipeIdle
    /\ AppIdle
    /\ ItemIdle
    /\ ArtifactIdle
    /\ FilterIdle
    /\ RecIdle
    /\ ChunkIdle

\* the listeners after terminate() on the ffplay of listener t
Terminated(t) ==
    IF listeners[t].process = "alive"
    THEN [listeners EXCEPT ![t].process = "terminated"]
    ELSE listeners

\* toggle_listen: start a listener thread, or clear the flag and terminate
\* the process the application holds
ToggleListen ==
    /\ pc = "listen"
    /\ IF ~is_listening
       THEN /\ Len(listeners) < MaxListens
            /\ is_listening' = TRUE
            /\ listeners' = Append(listeners, [thread |-> "started", process |-> "none"])
            /\ UNCHANGED listen_process
       ELSE /\ is_listening' = FALSE
            /\ IF listen_process # 0
               THEN /\ listeners' = Terminated(listen_process)
                    /\ listen_process' = 0
               ELSE UNCHANGED <<listeners, listen_process>>
    /\ UNCHANGED <<pc, pending_resets>>
    /\ UNCHANGED <<simVars, dedupVars, segVars, phraseVars, pipeVars, appVars, itemVars, artifactVars, filterVars, recVars, chunkVars>>

\* listen_to_stream up to its loop: Popen starts ffplay and the thread stores
\* it, or Popen raises and the thread ends through its finally
ListenerStarts ==
    /\ pc = "listen"
    /\ \E t \in DOMAIN listeners :
          /\ listeners[t].thread = "started"
          /\ \E started \in BOOLEAN :
                IF started
                THEN /\ listeners' = [listeners EXCEPT ![t] =
                                         [thread |-> "looping", process |-> "alive"]]
                     /\ listen_process' = t
                     /\ UNCHANGED pending_resets
                ELSE /\ listeners' = [listeners EXCEPT ![t].thread = "dead"]
                     /\ pending_resets' = pending_resets + 1
                     /\ UNCHANGED listen_process
    /\ UNCHANGED <<pc, is_listening>>
    /\ UNCHANGED <<simVars, dedupVars, segVars, phraseVars, pipeVars, appVars, itemVars, artifactVars, filterVars, recVars, chunkVars>>

\* not (self.is_listening and self.listen_process.poll() is None); poll() of
\* None raises
LoopEnds ==
    IF is_listening /\ listen_process # 0
    THEN listeners[listen_process].process # "alive"
    ELSE TRUE

\* listen_to_stream leaves its loop and defers the reset in its finally
ListenerEnds ==
    /\ pc = "listen"
    /\ LoopEnds
    /\ \E t \in DOMAIN listeners :
          /\ listeners[t].thread = "looping"
          /\ listeners' = [listeners EXCEPT ![t].thread = "dead"]
    /\ pending_resets' = pending_resets + 1
    /\ UNCHANGED <<pc, is_listening, listen_process>>
    /\ UNCHANGED <<simVars, dedupVars, segVars, phraseVars, pipeVars, appVars, itemVars, artifactVars, filterVars, recVars, chunkVars>>

\* ffplay ends by itself
PlayerEnds ==
    /\ pc = "listen"
    /\ \E t \in DOMAIN listeners :
          /\ listeners[t].process = "alive"
          /\ listeners' = [listeners EXCEPT ![t].process = "exited"]
    /\ UNCHANGED <<pc, is_listening, listen_process, pending_resets>>
    /\ UNCHANGED <<simVars, dedupVars, segVars, phraseVars, pipeVars, appVars, itemVars, artifactVars, filterVars, recVars, chunkVars>>

\* the main loop runs a deferred setattr(self, 'is_listening', False)
DeferredReset ==
    /\ pc = "listen"
    /\ pending_resets > 0
    /\ is_listening' = FALSE
    /\ pending_resets' = pending_resets - 1
    /\ UNCHANGED <<pc, listen_process, listeners>>
    /\ UNCHANGED <<simVars, dedupVars, segVars, phraseVars, pipeVars, appVars, itemVars, artifactVars, filterVars, recVars, chunkVars>>

NextListen ==
    \/ ToggleListen
    \/ ListenerStarts
    \/ ListenerEnds
    \/ PlayerEnds
    \/ DeferredReset

SpecListen == InitListen /\ [][NextListen]_vars

-----------------------------------------------------------------------------
(* The chunk loop of transcribe_and_extract: export, the speech-to-text call *)
(* with its retries, the collection of segments and the removal of the      *)
(* chunk file, up to the keypoint extraction                                *)

\* most chunks of an audio file
MaxChunks == 3

\* max_retries
max_retries == 3

InitChunks ==
    /\ pc = "chunks"
    /\ num_chunks \in 1..MaxChunks
    /\ chunk_i = 0
    /\ chunk_pc = "export"
    /\ retry = 0
    /\ response = None
    /\ chunk_segments = <<>>
    /\ chunk_log = [c \in 0..(num_chunks - 1) |->
                      [attempts |-> 0, succeeded |-> FALSE, outcome |-> "pending"]]
    /\ SimIdle
    /\ DedupIdle
    /\ SegIdle
    /\ PhraseIdle
    /\ PipeIdle
    /\ AppIdle
    /\ ItemIdle
    /\ ArtifactIdle
    /\ FilterIdle
    /\ RecIdle
    /\ ListenIdle

\* the place after chunk chunk_i: the next chunk, or the keypoint extraction
\* after the last one
AfterChunk == IF chunk_i + 1 < num_chunks THEN "export" ELSE "extract"

\* chunk.export: the chunk file is written, or export raises and the loop
\* continues with the next chunk
ExportChunk ==
    /\ pc = "chunks"
    /\ chunk_pc = "export"
    /\ \E exported \in BOOLEAN :
          IF exported
          THEN /\ chunk_pc' = "attempt"
               /\ retry' = 0
               /\ response' = None
               /\ UNCHANGED <<chunk_i, chunk_log>>
          ELSE /\ chunk_pc' = AfterChunk
               /\ chunk_i' = chunk_i + 1
               /\ chunk_log' = [chunk_log EXCEPT ![chunk_i].outcome = "export failed"]
               /\ UNCHANGED <<retry, response>>
    /\ UNCHANGED <<pc, num_chunks, chunk_segments>>
    /\ UNCHANGED <<simVars, dedupVars, segVars, phraseVars, pipeVars, appVars, itemVars, artifactVars, filterVars, recVars, listenVars>>

\* one pass of the retry loop: the call returns a response and the loop
\* breaks, or it raises and the loop goes on while attempts are left
AttemptTranscription ==
    /\ pc = "chunks"
    /\ chunk_pc = "attempt"
    /\ \E answered \in BOOLEAN :
          IF answered
          THEN /\ response' = "response"
               /\ chunk_pc' = "process"
               /\ chunk_log' = [chunk_log EXCEPT ![chunk_i].attempts = @ + 1,
                                                 ![chunk_i].succeeded = TRUE]
               /\ UNCHANGED retry
          ELSE /\ chunk_log' = [chunk_log EXCEPT ![chunk_i].attempts = @ + 1]
               /\ IF retry < max_retries - 1
                  THEN /\ retry' = retry + 1
                       /\ UNCHANGED <<response, chunk_pc>>
                  ELSE /\ response' = None
                       /\ chunk_pc' = "process"
                       /\ UNCHANGED retry
    /\ UNCHANGED <<pc, num_chunks, chunk_i, chunk_segments>>
    /\ UNCHANGED <<simVars, dedupVars, segVars, phraseVars, pipeVars, appVars, itemVars, artifactVars, filterVars, recVars, listenVars>>

\* if response: the segments of the response are collected, the response
\* has none, or reading them raises
ProcessResponse ==
    /\ pc = "chunks"
    /\ chunk_pc = "process"
    /\ IF response # None
       THEN \E segments \in {"some", "none", "raises"} :
              /\ chunk_segments' = IF segments = "some"
                                  THEN Append(chunk_segments, chunk_i)
                                  ELSE chunk_segments
              /\ chunk_pc' = IF segments = "raises" THEN "handler" ELSE "cleanup"
              /\ chunk_log' = [chunk_log EXCEPT ![chunk_i].outcome =
                                   IF segments = "raises" THEN "error" ELSE "transcribed"]
       ELSE /\ chunk_pc' = "cleanup"
            /\ chunk_log' = [chunk_log EXCEPT ![chunk_i].outcome = "attempts failed"]
            /\ UNCHANGED chunk_segments
    /\ UNCHANGED <<pc, num_chunks, chunk_i, retry, response>>
    /\ UNCHANGED <<simVars, dedupVars, segVars, phraseVars, pipeVars, appVars, itemVars, artifactVars, filterVars, recVars, listenVars>>

\* os.remove(chunk_path) at the end of the loop body: the file is removed,
\* or os.remove raises
CleanUpChunk ==
    /\ pc = "chunks"
    /\ chunk_pc = "cleanup"
    /\ \E removed \in BOOLEAN :
          IF removed
          THEN /\ chunk_pc' = AfterChunk
               /\ chunk_i' = chunk_i + 1
          ELSE /\ chunk_pc' = "handler"
               /\ UNCHANGED chunk_i
    /\ UNCHANGED <<pc, num_chunks, retry, response, chunk_segments, chunk_log>>
    /\ UNCHANGED <<simVars, dedupVars, segVars, phraseVars, pipeVars, appVars, itemVars, artifactVars, filterVars, recVars, listenVars>>

\* except Exception as chunk_error: os.remove(chunk_path) again, then
\* continue; if os.remove raises here the exception leaves the loop and the
\* function ends through its finally
HandleChunkError ==
    /\ pc = "chunks"
    /\ chunk_pc = "handler"
    /\ \E removed \in BOOLEAN :
          IF removed
          THEN /\ chunk_pc' = AfterChunk
               /\ chunk_i' = chunk_i + 1
          ELSE /\ chunk_pc' = "raised"
               /\ UNCHANGED chunk_i
    /\ UNCHANGED <<pc, num_chunks, retry, response, chunk_segments, chunk_log>>
    /\ UNCHANGED <<simVars, dedupVars, segVars, phraseVars, pipeVars, appVars, itemVars, artifactVars, filterVars, recVars, listenVars>>

\* the keypoint extraction after the loop
ReachExtraction ==
    /\ pc = "chunks"
    /\ chunk_pc = "extract"
    /\ chunk_pc' = "extracted"
    /\ UNCHANGED <<pc, num_chunks, chunk_i, retry, response, chunk_segments, chunk_log>>
    /\ UNCHANGED <<simVars, dedupVars, segVars, phraseVars, pipeVars, appVars, itemVars, artifactVars, filterVars, recVars, listenVars>>

NextChunks ==
    \/ ExportChunk
    \/ AttemptTranscription
    \/ ProcessResponse
    \/ CleanUpChunk
    \/ HandleChunkError
    \/ ReachExtraction

SpecChunks == InitChunks /\ [][NextChunks]_vars

-----------------------------------------------------------------------------
(* Runs of either program: the recording pipeline or the application        *)

InitRuns == InitPipe \/ InitApp

NextRuns == NextPipe \/ NextApp

SpecRuns == InitRuns /\ [][NextRuns]_vars

\* the words and the phrases the pipeline writes to the transcription file
single_words == WordsWithTimes(keypoint_times)

written_phrases == PhrasesWithTimes(keypoint_times)

-----------------------------------------------------------------------------
(* Claims about the similarity function *)

NormText(t) == Strip(Lower(t))

NormSubstring(a, b) == In(NormText(a), NormText(b)) \/ In(NormText(b), NormText(a))

\* the two texts share three consecutive words
SharesRunOfThree(a, b) ==
    LET w1 == Split(NormText(a))
        w2 == Split(NormText(b))
    IN  \E i \in 1..(Len(w1) - 2), j \in 1..(Len(w2) - 2) :
            \A k \in 0..2 : w1[i + k] = w2[j + k]

\* Jaccard similarity of the word sets, plus 0.2 for a shared run, at most 1
JaccardWithBonus(a, b) ==
    LET W1 == Range(Split(NormText(a)))
        W2 == Range(Split(NormText(b)))
        n == 5 * Cardinality(W1 \cap W2)
                + (IF SharesRunOfThree(a, b) THEN Cardinality(W1 \cup W2) ELSE 0)
        d == 5 * Cardinality(W1 \cup W2)
    IN  IF n >= d THEN FOne ELSE Frac(n, d)

\* Jaccard similarity of the word sets, 0 when either text has no word
PlainJaccard(a, b) ==
    LET W1 == Range(Split(NormText(a)))
        W2 == Range(Split(NormText(b)))
    IN  IF W1 = {} \/ W2 = {} THEN FZero
        ELSE Frac(Cardinality(W1 \cap W2), Cardinality(W1 \cup W2))

InUnitInterval(x) == FracLeq(FZero, x) /\ FracLeq(x, FOne)

\* C9: similarity(a, b) = similarity(b, a) for all pairs of strings, the empty
\* and the whitespace-only ones included (both copies of the function).
SimilaritySymmetric ==
    pc = "sim_done" => sim12 = sim21 /\ simU12 = simU21

\* a pair scored by Jaccard plus bonus, below the clamp: 1/3 + 0.2
SimilaritySymmetricWitness ==
    /\ pc = "sim_done"
    /\ text1 # text2
    /\ sim12 = <<8, 15>>
    /\ sim21 = <<8, 15>>

\* C10 as stated: a value in [0, 1]; 0.9 whenever one lower-cased, trimmed
\* string is a substring of the other; otherwise Jaccard plus bonus, clamped.
SimilarityContractAsStated ==
    pc = "sim_done" =>
        /\ InUnitInterval(sim12)
        /\ NormSubstring(text1, text2) => sim12 = F09
        /\ ~NormSubstring(text1, text2) => sim12 = JaccardWithBonus(text1, text2)

\* C10 amended: the value is in [0, 1]; the empty string scores 0.0 against
\* everything; for two non-empty strings calculate_text_similarity returns 0.9
\* when one lower-cased, trimmed string is a substring of the other, and Jaccard
\* plus bonus, clamped to 1.0, otherwise; the utils copy is the plain Jaccard
\* similarity of the word sets, 0.0 when a string has no word.
SimilarityContract ==
    pc = "sim_done" =>
        /\ InUnitInterval(sim12)
        /\ (text1 = <<>> \/ text2 = <<>>) => sim12 = FZero
        /\ (text1 # <<>> /\ text2 # <<>> /\ NormSubstring(text1, text2))
              => sim12 = F09
        /\ (text1 # <<>> /\ text2 # <<>> /\ ~NormSubstring(text1, text2))
              => sim12 = JaccardWithBonus(text1, text2)
        /\ InUnitInterval(simU12)
        /\ simU12 = PlainJaccard(text1, text2)

\* the clamp acts: equal word sets, a shared run, neither a substring
SimilarityContractWitness ==
    /\ pc = "sim_done"
    /\ ~NormSubstring(text1, text2)
    /\ SharesRunOfThree(text1, text2)
    /\ sim12 = FOne

-----------------------------------------------------------------------------
(* Claims about deduplication *)

\* a is a contiguous substring of b after lower-casing and collapsing whitespace
NormalizedIn(a, b) == In(Join(Split(Lower(a)), SP), Join(Split(Lower(b)), SP))

\* C1: running deduplicate_phrases on its own output yields the same set of
\* keypoints, the same canonical texts with the same timestamp lists.
DeduplicationIdempotent ==
    pc = "dedup_twice" => Range(deduplicated_again) = Range(deduplicated)

\* the input is two keypoints, one's normalized text a substring of the other's
NestedPair ==
    /\ Len(phrases_with_times) = 2
    /\ \/ NormalizedIn(phrases_with_times[1].phrase, phrases_with_times[2].phrase)
       \/ NormalizedIn(phrases_with_times[2].phrase, phrases_with_times[1].phrase)

CoronaExample ==
    phrases_with_times = <<[phrase |-> CoronaMaatregelen, times |-> <<5>>],
                           [phrase |-> DeNieuweCoronaMaatregelen, times |-> <<5, 40>>]>>

\* the longer of the two original texts; the first one when equally long
LongerOriginal(a, b) == IF Len(b) > Len(a) THEN b ELSE a

\* C6 as stated: such a pair yields one keypoint, the longer original text with
\* both timestamp lists concatenated; the corona example gives [5, 40, 5].
DedupPairAsStated ==
    (pc = "dedup_once" /\ NestedPair) =>
        LET p == phrases_with_times[1]
            q == phrases_with_times[2]
        IN  /\ Len(deduplicated) = 1
            /\ deduplicated[1].phrase \in {p.phrase, q.phrase}
            /\ Len(deduplicated[1].phrase) >= Len(p.phrase)
            /\ Len(deduplicated[1].phrase) >= Len(q.phrase)
            /\ deduplicated[1].times \in {p.times \o q.times, q.times \o p.times}
            /\ CoronaExample => deduplicated[1].times = <<5, 40, 5>>

\* C6 amended: such a pair yields one keypoint whose text is the longer original
\* text (the first on equal length) and whose timestamps are the first list
\* followed by the second, nothing dropped; the corona example gives [5, 5, 40].
DedupPair ==
    (pc = "dedup_once" /\ NestedPair) =>
        LET p == phrases_with_times[1]
            q == phrases_with_times[2]
        IN  /\ Len(deduplicated) = 1
            /\ deduplicated[1].phrase = LongerOriginal(p.phrase, q.phrase)
            /\ deduplicated[1].times = p.times \o q.times
            /\ CoronaExample => deduplicated[1].times = <<5, 5, 40>>

\* the corona example has been deduplicated
DedupPairWitness ==
    /\ pc = "dedup_once"
    /\ CoronaExample
    /\ deduplicated = <<[phrase |-> DeNieuweCoronaMaatregelen,
                         times |-> <<5, 5, 40>>]>>

-----------------------------------------------------------------------------
(* Claims about the segment merger *)

\* the lower-cased, trimmed text of a contains that of b
ContainsText(a, b) == In(NormText(b), NormText(a))

\* the first of the members whose trimmed text is longest
LongestMember(group) ==
    group[SetMin({i \in DOMAIN group :
                    \A j \in DOMAIN group :
                        Len(Strip(group[j].text)) <= Len(Strip(group[i].text))})]

\* C8: the output segment of every merge group starts at the least start and
\* ends at the greatest end of the group, and when one member's text contains
\* the others' the output text is that longer variant.
MergeGroupResult ==
    pc = "seg_done" =>
        \A k \in DOMAIN similar_groups :
            LET group == similar_groups[k]
                out == merged_segments[k]
            IN  Len(group) > 1 =>
                  /\ \A i \in DOMAIN group : out.start <= group[i].start
                  /\ \E i \in DOMAIN group : out.start = group[i].start
                  /\ \A i \in DOMAIN group : out.end >= group[i].end
                  /\ \E i \in DOMAIN group : out.end = group[i].end
                  /\ (\E i \in DOMAIN group : \A j \in DOMAIN group :
                          ContainsText(group[i].text, group[j].text))
                        => out.text = Strip(LongestMember(group).text)

\* scenario 1: 0-2 and 2-4, the second text extending the first, threshold 0.5
MergeGroupResultWitness ==
    /\ pc = "seg_done"
    /\ similarity_threshold = <<1, 2>>
    /\ all_segments = <<[start |-> 0, end |-> 2, text |-> HetWeer],
                        [start |-> 2, end |-> 4, text |-> HetWeerEnWarm]>>
    /\ merged_segments = <<[start |-> 0, end |-> 4, text |-> HetWeerEnWarm]>>

-----------------------------------------------------------------------------
(* Claims about the phrase merger *)

\* the lower-cased words of a phrase
WordsOf(phrase) == Split(Lower(phrase))

\* the two phrases share a run of words that meets the merge thresholds
MeetsMergeThresholds(p, q) ==
    LET n == SetMin({Len(WordsOf(p)), Len(WordsOf(q))})
        run == MaxCommonLength(WordsOf(p), WordsOf(q))
    IN  /\ Len(WordsOf(p)) >= 3 /\ Len(WordsOf(q)) >= 3
        /\ run >= (IF n <= 4 THEN 2 ELSE 3)
        /\ 5 * run >= 2 * n

\* the longest run the two phrases share ends p and starts q
RunJoins(p, q) ==
    LET run == MaxCommonLength(WordsOf(p), WordsOf(q))
    IN  /\ run <= Len(WordsOf(p)) /\ run <= Len(WordsOf(q))
        /\ SubSeq(WordsOf(p), Len(WordsOf(p)) - run + 1, Len(WordsOf(p)))
              = SubSeq(WordsOf(q), 1, run)

\* the words of p followed by the words of q after the shared run
JoinedWords(p, q) ==
    LET run == MaxCommonLength(WordsOf(p), WordsOf(q))
    IN  WordsOf(p) \o SubSeq(WordsOf(q), run + 1, Len(WordsOf(q)))

\* C7: two phrases that share a run of words meeting the merge thresholds, the
\* run at the end of one and the start of the other, come out of
\* merge_overlapping_phrases as one phrase holding the words of both in order,
\* not as two entries.
OverlappingPhrasesMerged ==
    (pc = "phrase_merged" /\ Len(phrases) = 2
        /\ MeetsMergeThresholds(phrases[1], phrases[2])) =>
            /\ RunJoins(phrases[1], phrases[2]) /\ phrases[1] # phrases[2]
                  => /\ Len(merged_phrases) = 1
                     /\ WordsOf(merged_phrases[1]) = JoinedWords(phrases[1], phrases[2])
            /\ RunJoins(phrases[2], phrases[1]) /\ phrases[1] # phrases[2]
                  => /\ Len(merged_phrases) = 1
                     /\ WordsOf(merged_phrases[1]) = JoinedWords(phrases[2], phrases[1])

\* the economy example comes out as the two phrases it went in as
EconomyExampleUnmerged ==
    /\ pc = "phrase_merged"
    /\ phrases = <<NieuweMaatregelen, MaatregelenVandaag>>
    /\ merged_phrases = <<NieuweMaatregelen, MaatregelenVandaag>>

(* Claims about the recording pipeline *)

\* the phrases among the keypoints written out
RetainedPhrases ==
    {keypoint_times[i].phrase : i \in {k \in DOMAIN keypoint_times :
                                          HasSpace(keypoint_times[k].phrase)}}

ProperlyNested(p, q) ==
    /\ NormalizePhrase(p) # NormalizePhrase(q)
    /\ In(NormalizePhrase(p), NormalizePhrase(q))

\* C2: among the phrases the pipeline writes out, after subphrase removal and
\* deduplication, none has a normalized text that is a proper contiguous
\* substring of the normalized text of another
NoNestedPhrases ==
    pc = "done" =>
        \A p, q \in RetainedPhrases : ~ProperlyNested(p, q)

\* C3: every phrase of n words that the pipeline retains from the KeyBERT
\* results has at most 1, 2, 3, 4 stopwords for n = 2, 3, 4, 5 and at most 5
\* for n >= 6, counted against the stopword set handed to the filter, and is
\* never made of stopwords only
StopwordCeilingOnEveryPath ==
    (pc = "done" /\ keybert_available) =>
        \A p \in RetainedPhrases :
            LET words_in_phrase == Split(p)
                stopword_count == StopwordCount(words_in_phrase, basic_stopwords)
            IN  /\ WithinCeiling(stopword_count, Len(words_in_phrase))
                /\ stopword_count # Len(words_in_phrase)

\* the starts of the segments the artifact filter does not flag
CleanStarts ==
    {all_segments[k].start : k \in {s \in DOMAIN all_segments :
                                       ~is_whisper_artifact(all_segments[s].text)}}

\* C4: a segment the artifact filter flags is in no merged-segment list and
\* gives its start to no keypoint, whatever the list of segments
ArtifactsExcluded ==
    /\ pc \in {"transcribed", "no_speech"} =>
          \A k \in DOMAIN merged_segments :
              ~is_whisper_artifact(merged_segments[k].text)
    /\ pc = "done" =>
          \A i \in DOMAIN keypoint_times :
              \A t \in DOMAIN keypoint_times[i].times :
                  keypoint_times[i].times[t] \in CleanStarts

-----------------------------------------------------------------------------
(* Claims about the application's keypoints *)

\* the words and the phrases of the results, together
FinalKeypoints == results.words \o results.phrases

\* C5: no two keypoints of the final set, words and phrases together, have the
\* same text after lower-casing and collapsing whitespace
FinalKeypointsDistinct ==
    pc = "app_done" =>
        \A i, j \in DOMAIN FinalKeypoints :
            i # j => NormalizePhrase(FinalKeypoints[i]) # NormalizePhrase(FinalKeypoints[j])

\* a transcript that spells a word in two cases gave words and phrases, and
\* the deduplication merged phrases
FinalKeypointsDistinctWitness ==
    /\ pc = "app_done"
    /\ results.word_count > 0
    /\ results.phrase_count > 0
    /\ \E i, j \in DOMAIN Split(app_text) :
          /\ Split(app_text)[i] # Split(app_text)[j]
          /\ Lower(Split(app_text)[i]) = Lower(Split(app_text)[j])
          /\ \E w \in DOMAIN results.words :
                results.words[w] = Lower(Split(app_text)[i])
    /\ results.phrase_count
         < Cardinality({k \in DOMAIN app_keypoint_times :
                           HasSpace(app_keypoint_times[k].phrase)})


-----------------------------------------------------------------------------
(* Claims about the finished result                                          *)

\* the listed texts are those of the entries, each in exactly one list, the
\* words without a space and the phrases with one
SplitByKind(words, phrases_listed, entries) ==
    /\ \A i \in DOMAIN words : ~HasSpace(words[i])
    /\ \A i \in DOMAIN phrases_listed : HasSpace(phrases_listed[i])
    /\ Range(words) \cap Range(phrases_listed) = {}
    /\ Range(words) \cup Range(phrases_listed) = Range(Texts(entries))
    /\ Len(words) + Len(phrases_listed) = Len(entries)

\* C11: in a finished result a keypoint is listed as a word exactly when its
\* text has no space, no keypoint is listed both as a word and as a phrase,
\* and the two lists together hold every keypoint of the result, for the
\* results of process_keypoints and for the lists the pipeline writes out.
KindInvariant ==
    /\ pc = "app_done" =>
          SplitByKind(results.words, results.phrases, results.keypoint_times)
    /\ pc = "done" =>
          SplitByKind(Texts(single_words), Texts(written_phrases), keypoint_times)

\* a result of the pipeline with words and phrases, where a word and a phrase
\* that holds it were keypoints before the deduplication
KindInvariantWitness ==
    /\ pc = "done"
    /\ single_words # <<>>
    /\ written_phrases # <<>>
    /\ \E i, j \in DOMAIN keypoints :
          /\ ~HasSpace(keypoints[i])
          /\ HasSpace(keypoints[j])
          /\ In(keypoints[i], keypoints[j])

\* no segment mentions the keypoint kp
Unmatched(kp) ==
    \A k \in DOMAIN all_segments : ~In(Lower(kp), Lower(all_segments[k].text))

\* C12: every keypoint of a finished result has at least one timestamp, in
\* the results of process_keypoints and in the keypoints the pipeline writes
\* out, and a keypoint that no segment mentions is not among the latter.
TimestampsNonEmpty ==
    /\ pc = "app_done" =>
          /\ \A i \in DOMAIN results.keypoint_times :
                 results.keypoint_times[i].times # <<>>
          /\ Range(FinalKeypoints) = Range(Texts(results.keypoint_times))
    /\ pc = "done" =>
          /\ \A i \in DOMAIN keypoint_times : keypoint_times[i].times # <<>>
          /\ \A k \in DOMAIN keypoints :
                 Unmatched(keypoints[k]) =>
                    keypoints[k] \notin Range(Texts(keypoint_times))

\* the pipeline has dropped a keypoint that no segment mentions and kept others
TimestampsNonEmptyWitness ==
    /\ pc = "done"
    /\ keypoint_times # <<>>
    /\ \E k \in DOMAIN keypoints : Unmatched(keypoints[k])

\* C13: what keypoint extraction hands to its caller is a collection of
\* keypoints, an empty one when no candidate was left, and never None: the
\* dict of extract_keypoints_with_timestamps, the lists of process_keypoints
\* and the value extract_keypoints returns.
FailureSurfacedAsEmpty ==
    /\ pc = "app_done" =>
          results.total_keypoints = Len(results.words) + Len(results.phrases)
    /\ pc = "extract_returned" => ~extracted.none

-----------------------------------------------------------------------------
(* Claims about malformed items                                              *)

\* C14: a stage handed a list with one malformed item does not raise, and
\* returns what it returns for the list without that item.
MalformedItemDropped ==
    pc \in {"segments_merged", "keypoints_deduplicated"} =>
        /\ ~outcome.raised
        /\ outcome = outcome_without

-----------------------------------------------------------------------------
(* Claims about the order of the stages                                      *)

\* C15: in a run the stages are entered in the order Segment Merger, Artifact
\* Filter, Candidate Adapter, Stopword Filter, Phrase Merger, Deduplicator:
\* after a later stage no earlier stage is entered.
StagesStrictlyForward ==
    \A i, j \in DOMAIN entered :
        i < j => StageNumber(entered[i]) <= StageNumber(entered[j])

-----------------------------------------------------------------------------
(* Claims about the input segments                                           *)

-----------------------------------------------------------------------------
(* Claims about the runs of one process                                      *)

\* C17: the keypoints of a run depend on its recording only: the first
\* recording, run again after a run on another recording in the same process,
\* gets the keypoints it got in the first run.
RunsIndependent ==
    (pc = "done" /\ run_number = MaxRuns) =>
        /\ first_run.pc = "done"
        /\ keypoint_times = first_run.keypoint_times

-----------------------------------------------------------------------------
(* Claims about the groups of the segment merger                             *)

\* the groups as positions in the valid segments; a list of at most one
\* segment is returned as it is, its valid segment being a group of its own
GroupPositions(segments, threshold) ==
    IF Len(segments) <= 1
    THEN [k \in DOMAIN ValidSegments(segments) |-> {k}]
    ELSE SimilarPositions(ValidSegments(segments), 1, {}, threshold)

\* every valid segment is in exactly one of the groups
Partitioned(valid_segments, positions) ==
    \A i \in DOMAIN valid_segments :
        Cardinality({k \in DOMAIN positions : i \in positions[k]}) = 1

\* C18: every segment that is not empty and not an artifact is in exactly one
\* merge group, and the merger returns one segment per group.
GroupsPartitionSegments ==
    pc = "seg_done" =>
        /\ Partitioned(ValidSegments(all_segments),
                       GroupPositions(all_segments, similarity_threshold))
        /\ Len(all_segments) > 1 =>
              similar_groups =
                 [k \in DOMAIN GroupPositions(all_segments, similarity_threshold) |->
                    KeepAt(ValidSegments(all_segments),
                           GroupPositions(all_segments, similarity_threshold)[k])]
        /\ Len(merged_segments) = Len(GroupPositions(all_segments, similarity_threshold))

\* the same for the lists of two segments and more, which reach the grouping
LongerListsPartitioned ==
    (pc = "seg_done" /\ Len(all_segments) > 1) => GroupsPartitionSegments

-----------------------------------------------------------------------------
(* Claims about the text of a merged group                                   *)

\* the trimmed texts of a group
TrimmedTexts(group) == Tuple([i \in DOMAIN group |-> Strip(group[i].text)])

\* the longest of the texts, the first of them when several are as long
LongestText(texts) ==
    texts[SetMin({i \in DOMAIN texts :
                    \A j \in DOMAIN texts : Len(texts[j]) <= Len(texts[i])})]

SimilarityToBase(text, base) == calculate_text_similarity(Lower(text), Lower(base))

\* text is in the base, or as similar to it as the bound says
Redundant(text, base, at_least) ==
    \/ In(Lower(text), Lower(base))
    \/ IF at_least THEN FracLeq(VerySimilar, SimilarityToBase(text, base))
                   ELSE FracLt(VerySimilar, SimilarityToBase(text, base))

\* the other texts that are not redundant
TextsToAppend(texts, at_least) ==
    KeepAt(texts, {i \in DOMAIN texts :
                      /\ texts[i] # LongestText(texts)
                      /\ ~Redundant(texts[i], LongestText(texts), at_least)})

\* the base, followed by the texts to append with single spaces between them
\* and for every two spaces in a row
TextByRule(texts, at_least) ==
    IF TextsToAppend(texts, at_least) = <<>> THEN LongestText(texts)
    ELSE Strip(ReplaceDoubleSpaces(
             Join(<<LongestText(texts)>> \o TextsToAppend(texts, at_least), SP), 1))

TextsMergedByRule(at_least) ==
    pc = "seg_done" =>
        \A k \in DOMAIN similar_groups :
            Len(similar_groups[k]) > 1 =>
                merged_segments[k].text =
                    TextByRule(TrimmedTexts(similar_groups[k]), at_least)

\* C19: the merged text of a group is its longest text followed, with single
\* spaces, by the other texts that are not in the base and less than 0.8
\* similar to it: a text exactly 0.8 similar to the base is not appended.
TextMergeRule == TextsMergedByRule(TRUE)

\* C19, amended: the other texts that are not in the base and at most 0.8
\* similar to it are appended: a text exactly 0.8 similar to the base is.
TextMergeRuleAbove == TextsMergedByRule(FALSE)

\* a group of two whose second text is exactly 0.8 similar to the longer
\* first one and follows it in the merged text
TextMergeRuleAboveWitness ==
    /\ pc = "seg_done"
    /\ \E k \in DOMAIN similar_groups :
          /\ Len(similar_groups[k]) = 2
          /\ similar_groups[k][1].text = MorgenZonnig
          /\ similar_groups[k][2].text = HetWeerMorgen
          /\ SimilarityToBase(HetWeerMorgen, MorgenZonnig) = VerySimilar
          /\ merged_segments[k].text = MorgenZonnig \o SP \o HetWeerMorgen

-----------------------------------------------------------------------------
(* Claims about the artifact filter                                          *)

ContainsOneOf(fragments, text) ==
    \E k \in DOMAIN fragments : In(fragments[k], Lower(text))

\* some word of more than 3 characters is more than 3 times among the words
\* of the lower-cased text
WordMoreThanThrice(text) ==
    \E word \in Range(Split(Lower(text))) :
        /\ Len(word) > 3
        /\ Cardinality({i \in DOMAIN Split(Lower(text)) :
                           Split(Lower(text))[i] = word}) > 3

\* the places where piece is in text
PlacesOf(piece, text) ==
    {p \in 1..(Len(text) - Len(piece) + 1) :
        SubSeq(text, p, p + Len(piece) - 1) = piece}

\* two, and three, places that are the length of the piece apart
TwiceApart(places, length) ==
    \E p, q \in places : p + length <= q

ThriceApart(places, length) ==
    \E p, q, r \in places : p + length <= q /\ q + length <= r

\* the text has more than 100 characters and 20 characters in a row that are
\* in it more than twice
SequenceMoreThanTwice(text) ==
    /\ Len(text) > 100
    /\ \E p \in 1..(Len(text) - 19) :
          ThriceApart(PlacesOf(SubSeq(text, p, p + 19), text), 20)

\* the four conditions of the claim
OneOfFour(text) ==
    \/ ContainsOneOf(whisper_prompt_indicators, text)
    \/ ContainsOneOf(suspicious_patterns, text)
    \/ WordMoreThanThrice(text)
    \/ SequenceMoreThanTwice(text)

\* the lower-cased, trimmed text has more than 3 words and more than 20
\* characters that are no spaces, and three words in a row that, joined by
\* single spaces, are longer than 10 characters and twice in the text
PhraseTwice(text) ==
    /\ Len(Split(Lower(text))) > 3
    /\ Len(SelectSeq(Strip(Lower(text)), LAMBDA c : c # " ")) > 20
    /\ \E i \in 1..(Len(Split(Lower(text))) - 2) :
          /\ Len(Join(SubSeq(Split(Lower(text)), i, i + 2), SP)) > 10
          /\ TwiceApart(PlacesOf(Join(SubSeq(Split(Lower(text)), i, i + 2), SP),
                                 Strip(Lower(text))),
                        Len(Join(SubSeq(Split(Lower(text)), i, i + 2), SP)))

\* C20: is_artifact(text) is true exactly when the lower-cased text contains
\* a listed fragment or a listed suspicious sub-phrase, a word of more than 3
\* characters is in it more than 3 times, or the text is longer than 100
\* characters and has 20 characters in a row more than twice.
ArtifactExactlyWhenOneOfFour ==
    pc = "artifact_checked" =>
        /\ is_artifact <=> OneOfFour(checked_text)
        /\ utils_is_artifact <=> OneOfFour(checked_text)

\* C20, amended: the function of phrase_filtering is true exactly when one of
\* the four conditions or the repeated phrase holds, the function of utils
\* exactly when the text contains one of its own fragments or sub-phrases.
ArtifactExactlyWhenOneOfFive ==
    pc = "artifact_checked" =>
        /\ is_artifact <=> (OneOfFour(checked_text) \/ PhraseTwice(checked_text))
        /\ utils_is_artifact <=>
              \/ ContainsOneOf(utils_whisper_prompt_indicators, checked_text)
              \/ ContainsOneOf(utils_suspicious_patterns, checked_text)

\* a text that is an artifact by its repeated phrase only
ArtifactExactlyWhenOneOfFiveWitness ==
    /\ pc = "artifact_checked"
    /\ is_artifact
    /\ ~OneOfFour(checked_text)
    /\ PhraseTwice(checked_text)

-----------------------------------------------------------------------------
(* Claims about the word filter *)

\* the places of the single-word candidates of a list: tuples whose text is
\* not empty and holds no space
WordCandidates(items) ==
    {i \in DOMAIN items :
        /\ IsTuple(items[i])
        /\ items[i].phrase # <<>>
        /\ ~HasSpace(items[i].phrase)}

\* how often a text is in a list of texts
TimesIn(text, texts) == Cardinality({k \in DOMAIN texts : texts[k] = text})

-----------------------------------------------------------------------------
(* Claims about what the phrase merger merges, keeps and drops *)

\* the place of the first word of a run of words in a list of words, 0 when
\* the run is not in the list
RunPlace(words, run) ==
    LET at == {k \in 1..(Len(words) - Len(run) + 1) :
                  SubSeq(words, k, k + Len(run) - 1) = run}
    IN  IF at = {} THEN 0 ELSE SetMin(at)

\* the numbers of words before and after the run the two phrases share
WordsBefore(p, q) ==
    RunPlace(WordsOf(p), CommonRun(WordsOf(p), WordsOf(q))) - 1

WordsAfter(p, q) ==
    Len(WordsOf(p)) - WordsBefore(p, q) - MaxCommonLength(WordsOf(p), WordsOf(q))

\* the words of the longest arrangement before + shared run + after
LongestArrangement(p, q) ==
    SetMax({WordsBefore(p, q), WordsBefore(q, p)})
       + MaxCommonLength(WordsOf(p), WordsOf(q))
       + SetMax({WordsAfter(p, q), WordsAfter(q, p)})

\* C23: when the merger replaces two phrases by a merged phrase, the merged
\* phrase has more words than each of the two, and two phrases are merged
\* whenever their shared run meets the thresholds and some arrangement of
\* before + shared run + after has more words than both.
MergedWheneverLonger ==
    (pc = "phrase_merged" /\ Len(phrases) = 2) =>
        /\ Len(merged_phrases) = 1
              => /\ WordCount(merged_phrases[1]) > WordCount(phrases[1])
                 /\ WordCount(merged_phrases[1]) > WordCount(phrases[2])
        /\ (/\ MeetsMergeThresholds(phrases[1], phrases[2])
            /\ LongestArrangement(phrases[1], phrases[2]) > WordCount(phrases[1])
            /\ LongestArrangement(phrases[1], phrases[2]) > WordCount(phrases[2]))
              => /\ Len(merged_phrases) = 1
                 /\ WordCount(merged_phrases[1]) > WordCount(phrases[1])
                 /\ WordCount(merged_phrases[1]) > WordCount(phrases[2])

\* the two phrases of six words, whose merge would have seven, stay apart
SixWordPhrasesUnmerged ==
    /\ pc = "phrase_merged"
    /\ phrases = <<SixWordsFirst, SixWordsSecond>>
    /\ merged_phrases = <<SixWordsFirst, SixWordsSecond>>

\* a phrase of two words of which none is a word of three characters or more
\* outside common_words
MeaninglessPair(phrase) ==
    /\ Len(WordsOf(phrase)) = 2
    /\ \A k \in DOMAIN WordsOf(phrase) :
          WordsOf(phrase)[k] \in common_words \/ Len(WordsOf(phrase)[k]) < 3

\* C24: a phrase without a merge partner is kept on its own, except a phrase
\* of two words without a word of three characters or more that is no
\* stopword; no such phrase is in the result of the merger.
StandaloneKeptUnlessMeaningless ==
    (pc = "phrase_merged" /\ Len(phrases) >= 2) =>
        /\ \A k \in DOMAIN merged_phrases : ~MeaninglessPair(merged_phrases[k])
        /\ \A i \in DOMAIN phrases :
              (/\ ~MeaninglessPair(phrases[i])
               /\ \A j \in DOMAIN phrases :
                     j # i => ~MeetsMergeThresholds(phrases[i], phrases[j]))
                 => \E k \in DOMAIN merged_phrases : merged_phrases[k] = phrases[i]

\* "de het" comes out of the merger next to "zon schijnt"
StopwordPairKept ==
    /\ pc = "phrase_merged"
    /\ phrases = <<Chars("de het"), Chars("zon schijnt")>>
    /\ merged_phrases = <<Chars("de het"), Chars("zon schijnt")>>

\* C29: the merger loses no content: every phrase handed to it is in the
\* result unchanged, or all of its words are in one phrase of the result.
NoContentLost ==
    pc = "phrase_merged" =>
        \A i \in DOMAIN phrases :
           \/ \E k \in DOMAIN merged_phrases : merged_phrases[k] = phrases[i]
           \/ \E k \in DOMAIN merged_phrases :
                 Range(WordsOf(phrases[i])) \subseteq Range(WordsOf(merged_phrases[k]))

\* the second phrase was absorbed in the search for the best merge of the
\* first, and the merge with the third is the one in the result
AbsorbedPhraseLost ==
    /\ pc = "phrase_merged"
    /\ phrases = <<TenWordsFirst, TenWordsSecond, TenWordsThird>>
    /\ merged_phrases = <<Chars("p q r s t e f g h l m n o i")>>

-----------------------------------------------------------------------------
(* Claims about the balancing of the phrase filter *)

\* the phrases that survive the stopword filter, in the order handed over
Survivors ==
    Texts(KeepAt(filter_input, {i \in DOMAIN filter_input :
                                   KeepsPhrase(filter_input[i], filter_stopwords)}))

\* how many phrases of two words a list holds
TwoWordCount(texts) == Cardinality({k \in DOMAIN texts : WordCount(texts[k]) = 2})

\* the returned 2-word phrases are at most 35% of the survivors
TwoWordShareCapped == 100 * TwoWordCount(filter_output) <= 35 * Len(Survivors)

-----------------------------------------------------------------------------
(* Claims about the ranking of the phrases *)

\* the word-count class of a phrase: 5 for five words or more, else its words
WordCountClass(phrase) == IF WordCount(phrase) >= 5 THEN 5 ELSE WordCount(phrase)

\* C25: the final phrase list is ordered by non-increasing word-count class
\* (5+ words, then 4, then 3, then 2): no phrase comes before a phrase of a
\* longer class.
PhrasesRankedByWordCountClass ==
    pc = "done" =>
        \A i, j \in DOMAIN written_phrases :
           i < j => WordCountClass(written_phrases[i].phrase)
                       >= WordCountClass(written_phrases[j].phrase)

\* a phrase of four words is written before a phrase of five words that has
\* fewer characters
LongerPhraseRankedLower ==
    /\ pc = "done"
    /\ \E i, j \in DOMAIN written_phrases :
          /\ i < j
          /\ written_phrases[i].phrase = Chars("jingles kunnen worden overgeslagen")
          /\ written_phrases[j].phrase = Chars("focus op spraak en gesprekken")

-----------------------------------------------------------------------------
(* Claims about the recorder and the transcription runs *)

\* the recorder threads that are alive
AliveRecorders == {r \in DOMAIN recorders : recorders[r].thread # "dead"}

AtMostOneRecorder == Cardinality(AliveRecorders) <= 1

\* the recorder thread of the recording of every transcription run is dead
\* and its ffmpeg process is not running
TranscriptionAfterRecorder ==
    \A t \in DOMAIN transcriptions :
       transcriptions[t].audio_path # 0
          => /\ recorders[transcriptions[t].audio_path].thread = "dead"
             /\ recorders[transcriptions[t].audio_path].process
                   \in {"none", "exited", "terminated", "killed"}

\* a step that handles a click on Start while recording, or on Stop while
\* not recording, changes nothing of the application
IgnoredClicksChangeNothing ==
    (/\ pc = "recorder"
     /\ click_parity' # click_parity
     /\ \/ last_click' = "start" /\ is_recording
        \/ last_click' = "stop" /\ ~is_recording)
        => UNCHANGED <<is_recording, stop_event, recording_thread, recorders,
                       main_thread, transcriptions, Popen>>

\* C26: under any sequence of clicks on Start and Stop at most one recorder
\* thread is alive at a time, a click on Start while recording and a click on
\* Stop while not recording change no state, and the transcription thread of
\* a recording is started only after the recorder thread of that recording
\* has ended, its ffmpeg process terminated, killed or gone.
RecordingStateMachine ==
    /\ [](pc = "recorder" => AtMostOneRecorder /\ TranscriptionAfterRecorder)
    /\ [][IgnoredClicksChangeNothing]_vars

\* a click on Start and a click on Stop were ignored, the first recording
\* ended with ffmpeg killed and its transcription runs, and the second
\* recording is being stopped with ffmpeg still running
RecordingStateMachineWitness ==
    /\ pc = "recorder"
    /\ ignored_clicks = {"start", "stop"}
    /\ Len(recorders) = 2
    /\ recorders[1] = [thread |-> "dead", process |-> "killed"]
    /\ recorders[2] = [thread |-> "waiting", process |-> "running"]
    /\ main_thread = "joining"
    /\ Len(transcriptions) = 1
    /\ transcriptions[1].audio_path = 1 /\ transcriptions[1].at = "transcribing"

\* C27: when every transcription run has finished, subprocess.Popen is the
\* original function again, also when runs overlapped.
PopenRestoredAfterRuns ==
    (/\ pc = "recorder"
     /\ \A t \in DOMAIN transcriptions : transcriptions[t].at = "finished")
        => Popen = OriginalPopen

\* two runs have finished and subprocess.Popen is the wrapper of the first
PopenLeftReplaced ==
    /\ pc = "recorder"
    /\ Len(transcriptions) = 2
    /\ \A t \in DOMAIN transcriptions : transcriptions[t].at = "finished"
    /\ Popen = 1

-----------------------------------------------------------------------------
(* Claims about live listening *)

OrphanPlayer ==
    /\ pc = "listen"
    /\ ~is_listening
    /\ listeners = <<[thread |-> "dead", process |-> "alive"]>>
    /\ listen_process = 1

-----------------------------------------------------------------------------
(* Claims about the chunk loop *)

\* the chunks whose segments have been collected
Contributing == {chunk_segments[k] : k \in DOMAIN chunk_segments}

\* at most 3 attempts for every chunk, and a chunk whose export failed or
\* whose attempts all failed has no segments among the collected ones
AttemptsBounded ==
    pc = "chunks" =>
        \A c \in DOMAIN chunk_log :
            /\ chunk_log[c].attempts <= 3
            /\ chunk_log[c].outcome \in {"export failed", "attempts failed"}
                   => c \notin Contributing
            /\ chunk_log[c].outcome = "attempts failed"
                   => chunk_log[c].attempts = 3 /\ ~chunk_log[c].succeeded

\* no attempt for a chunk after its first success
StopsAtFirstSuccess ==
    pc = "chunks" =>
        \A c \in DOMAIN chunk_log :
            chunk_log[c].succeeded => chunk_log'[c].attempts = chunk_log[c].attempts

\* the retry loop as the code has it: the bounds and the first success
RetryLoopBounded == []AttemptsBounded /\ [][StopsAtFirstSuccess]_vars

\* the loop has been left: by its end and the extraction, or by an exception
ChunkRunEnded == pc = "chunks" /\ chunk_pc \in {"extracted", "raised"}

\* C30: chunk transcription retry: for every chunk the speech-to-text call
\* is attempted at most 3 times and stops at the first success; a chunk whose
\* export fails or whose 3 attempts all fail contributes no segments, and
\* every later chunk is still processed, so that the run always reaches the
\* keypoint extraction after the last chunk.
ChunkRetryReachesExtraction ==
    /\ AttemptsBounded
    /\ ChunkRunEnded =>
          /\ chunk_pc = "extracted"
          /\ \A c \in DOMAIN chunk_log : chunk_log[c].outcome # "pending"

\* the file of the first of two chunks could not be removed, neither at the
\* end of the loop body nor in the handler: the run has ended without the
\* second chunk and without the extraction
ChunkLoopLeftByException ==
    /\ pc = "chunks"
    /\ chunk_pc = "raised"
    /\ num_chunks = 2
    /\ chunk_i = 0
    /\ chunk_segments = <<0>>
    /\ chunk_log[1].outcome = "pending"

\* a run of three chunks that reached the extraction: the export of the first
\* failed, the attempts for the second all failed, the third was answered at
\* its third attempt
RetriedRunReachedExtraction ==
    /\ pc = "chunks"
    /\ chunk_pc = "extracted"
    /\ num_chunks = 3
    /\ chunk_log[0].outcome = "export failed"
    /\ chunk_log[1].outcome = "attempts failed"
    /\ chunk_log[2] = [attempts |-> 3, succeeded |-> TRUE, outcome |-> "transcribed"]
    /\ chunk_segments = <<2>>

=============================================================================
